---- MODULE Spec2Model ----
(***************************************************************************)
(* A state-machine model of the low-bandwidth Matrix gateway               *)
(* (matrix-org/lb).  This part models the OBSERVE long-poll engine of      *)
(* coap_observe.go and coap_observe_sync.go: the registration table, the   *)
(* access-token reference counts, the last-response cache and one          *)
(* long-poll worker (goroutine) per accepted registration.                 *)
(***************************************************************************)
EXTENDS Integers, Sequences, FiniteSets, TLC

(***************************************************************************)
(* Bounds of the model.                                                    *)
(***************************************************************************)
\* number of long-poll goroutines that are ever started
MaxWorkers == 2
\* a worker sends no notification once its sequence number reached this
\* value (MaxSeq: concurrent registrations, MaxSyncSeq: single registration)
MaxSeq == 4
MaxSyncSeq == 5
\* deregistrations are not taken once a count fell to -MaxUnderflow
MaxUnderflow == 1

(***************************************************************************)
(* Program constants.                                                      *)
(***************************************************************************)
\* seqNum := uint32(2)
FirstSeqNum == 2
\* vals.Set("timeout", "10000")
SyncTimeout == "10000"
\* http.StatusOK
StatusOK == 200

(***************************************************************************)
(* Paths.  A path is the sequence of the pieces strings.Split(path, "/")   *)
(* gives: "/7" is <<"", "7">>, "7" is <<"7">>, "/a/" is <<"", "a", "">>.   *)
(***************************************************************************)
\* "_matrix/client/r0/sync"
SyncHTTPPath == <<"_matrix", "client", "r0", "sync">>

\* The rows of the v1 path table the model uses; a placeholder segment
\* starts with "{".
pathMappings ==
    [code \in {"6", "7", "d", "e", "n"} |->
        CASE code = "6" -> <<"", "_matrix", "client", "r0", "user", "{userId}",
                             "filter", "{filterId}">>
          [] code = "7" -> <<"">> \o SyncHTTPPath
          [] code = "d" -> <<"", "_matrix", "client", "r0", "devices">>
          [] code = "e" -> <<"", "_matrix", "client", "r0", "devices",
                             "{deviceId}">>
          [] code = "n" -> <<"", "_matrix", "client", "r0", "pushrules", "">>]

\* strings.HasPrefix(segment, "{"), on the segments of the rows above
Placeholders == {"{userId}", "{filterId}", "{deviceId}"}

\* url.PathEscape on the segments the model uses: a space becomes %20, a
\* number sign %23, a percent sign %25
PathEscape(seg) ==
    CASE seg = "a b" -> "a%20b"
      [] seg = "#r" -> "%23r"
      [] seg = "a%20b" -> "a%2520b"
      [] seg = "%23r" -> "%2523r"
      [] OTHER -> seg

\* strings.HasPrefix(p, "/")
HasSlashPrefix(p) == Len(p) >= 2 /\ p[1] = ""

\* path := p, or "/" + p when p has no leading slash
WithSlashPrefix(p) == IF HasSlashPrefix(p) THEN p ELSE <<"">> \o p

\* variant: the placeholder takes the segment as it came
RECURSIVE FillTemplateRaw(_, _, _, _)
FillTemplateRaw(tpl, i, segs, j) ==
    IF i > Len(tpl) \/ j > Len(segs) THEN tpl
    ELSE IF tpl[i] \in Placeholders
         THEN FillTemplateRaw([tpl EXCEPT ![i] = segs[j]], i + 1, segs, j + 1)
         ELSE FillTemplateRaw(tpl, i + 1, segs, j)

\* the loop of CoAPPathToHTTPPath: walk the template, fill each placeholder
\* with the next CoAP segment, stop when the CoAP segments run out
RECURSIVE FillTemplate(_, _, _, _)
FillTemplate(tpl, i, segs, j) ==
    IF i > Len(tpl) \/ j > Len(segs) THEN tpl
    ELSE IF tpl[i] \in Placeholders
         THEN FillTemplate([tpl EXCEPT ![i] = PathEscape(segs[j])], i + 1, segs, j + 1)
         ELSE FillTemplate(tpl, i + 1, segs, j)

\* the number of placeholders of a template
RECURSIVE NumPlaceholders(_)
NumPlaceholders(tpl) ==
    IF tpl = <<>> THEN 0
    ELSE (IF Head(tpl) \in Placeholders THEN 1 ELSE 0) + NumPlaceholders(Tail(tpl))

\* variant: a path with more segments than the template has placeholders is
\* not taken for an enum path
CoAPPathToHTTPPathStrict(p) ==
    LET segments == WithSlashPrefix(p) IN
    IF segments[2] \notin DOMAIN pathMappings THEN p
    ELSE IF Len(segments) - 2 > NumPlaceholders(pathMappings[segments[2]]) THEN p
    ELSE IF Len(segments) > 2
         THEN FillTemplate(pathMappings[segments[2]], 1, segments, 3)
         ELSE pathMappings[segments[2]]

\* segments always has two pieces or more, the first of them empty
CoAPPathToHTTPPath(p) ==
    LET segments == WithSlashPrefix(p) IN
    IF Len(segments) < 2 THEN p
    ELSE IF segments[2] \notin DOMAIN pathMappings THEN p
    ELSE IF Len(segments) > 2
         THEN FillTemplate(pathMappings[segments[2]], 1, segments, 3)
         ELSE pathMappings[segments[2]]

\* path != "_matrix/client/r0/sync", after the leading slash was cut, in both
\* functions of NewSyncObservations
IsSyncPath(path) ==
    LET http == CoAPPathToHTTPPath(path) IN
    (IF HasSlashPrefix(http) THEN Tail(http) ELSE http) = SyncHTTPPath

\* newRouteRegexp: the template the pattern is built from, its trailing
\* slash cut
RouteTemplate(code) ==
    LET tpl == pathMappings[code] IN
    IF Len(tpl) >= 2 /\ tpl[Len(tpl)] = "" THEN SubSeq(tpl, 1, Len(tpl) - 1)
    ELSE tpl

\* the pattern ^...[/]?$ : the path without an optional trailing slash
WithoutEndSlash(path, tpl) ==
    IF Len(path) = Len(tpl) + 1 /\ path[Len(path)] = ""
    THEN SubSeq(path, 1, Len(tpl))
    ELSE path

\* r.regexp.MatchString(path): every literal piece is equal, every
\* placeholder stands for one piece that is not empty ([^/]+)
MatchString(code, path) ==
    LET tpl == RouteTemplate(code)
        q == WithoutEndSlash(path, tpl)
    IN  /\ Len(q) = Len(tpl)
        /\ \A i \in 1..Len(tpl) :
              IF tpl[i] \in Placeholders THEN q[i] # "" ELSE q[i] = tpl[i]

\* variant: the extraction starts one submatch too late
UserParamsSkipFirst(code, path) ==
    LET tpl == RouteTemplate(code)
        at == { i \in 1..Len(tpl) : tpl[i] \in Placeholders }
        first == CHOOSE i \in at : \A k \in at : i <= k
    IN  IF at = {} THEN <<>>
        ELSE SelectSeq([i \in 1..Len(tpl) |->
                          IF i \in at \ {first} THEN path[i] ELSE "/"],
                       LAMBDA x : x # "/")

\* the submatches of FindStringSubmatchIndex, in the order of the template
UserParams(code, path) ==
    LET tpl == RouteTemplate(code) IN
    SelectSeq([i \in 1..Len(tpl) |->
                  IF tpl[i] \in Placeholders THEN path[i] ELSE "/"],
              LAMBDA x : x # "/")

\* the codes whose pattern matches; the range over regexpsToCodes visits
\* them in any order and returns at the first match
MatchingCodes(p) ==
    { code \in DOMAIN pathMappings : MatchString(code, WithSlashPrefix(p)) }

\* HTTPPathToCoapPath, returning at the match for code
HTTPPathToCoapPathVia(p, code) ==
    <<"", code>> \o UserParams(code, WithSlashPrefix(p))

\* the results HTTPPathToCoapPath can give
HTTPPathToCoapPath(p) ==
    IF MatchingCodes(p) = {} THEN {p}
    ELSE { HTTPPathToCoapPathVia(p, code) : code \in MatchingCodes(p) }

(***************************************************************************)
(* Bodies.  A body is what the bytes decode to (next_batch and the rest of *)
(* the object) together with the encoding the bytes are in.                *)
(***************************************************************************)
Absent == "<absent>"

NilBody == [enc |-> "nil", nb |-> Absent, data |-> 0]

\* the objects the upstream origin answers with
Contents ==
    { [nb |-> "s1", data |-> 1], [nb |-> "s1", data |-> 2],
      [nb |-> "s2", data |-> 1], [nb |-> Absent, data |-> 1] }

CBORBody(c) == [enc |-> "cbor", nb |-> c.nb, data |-> c.data]

\* Codec.CBORToJSON: the same object, as JSON text
CBORToJSON(b) == [b EXCEPT !.enc = "json"]

\* gjson.GetBytes(body, "next_batch"): JSON text is searched for the key; nil
\* or CBOR bytes hold no such key
NextBatch(b) ==
    IF b.enc = "json" /\ b.nb # Absent
    THEN [exists |-> TRUE, str |-> b.nb]
    ELSE [exists |-> FALSE, str |-> ""]

\* variant: no HasUpdatedFn given, every response is treated as meaningful
hasUpdatedFnAlways(path, prev, curr) == TRUE

\* the HasUpdatedFn of NewSyncObservations
hasUpdatedFn(path, prev, curr) ==
    IF ~IsSyncPath(path) THEN TRUE
    ELSE IF prev = NilBody /\ curr # NilBody THEN TRUE
    ELSE ~(NextBatch(prev).str = NextBatch(curr).str)

(***************************************************************************)
(* Requests.  A query is the value of each parameter ("" when not set).    *)
(***************************************************************************)
NoParam == ""

OrigQueries ==
    { [since |-> NoParam, timeout |-> NoParam, filter |-> "f1"],
      [since |-> "s0", timeout |-> "30000", filter |-> NoParam] }

\* variant: an update function that sets since and leaves timeout alone
updateFnSinceOnly(path, prevRespBody, query) ==
    IF ~IsSyncPath(path) THEN query
    ELSE IF ~NextBatch(prevRespBody).exists THEN query
    ELSE [query EXCEPT !.since = NextBatch(prevRespBody).str]

\* the ObserveUpdateFn of NewSyncObservations
updateFn(path, prevRespBody, query) ==
    IF ~IsSyncPath(path) THEN query
    ELSE IF ~NextBatch(prevRespBody).exists THEN query
    ELSE [query EXCEPT !.since = NextBatch(prevRespBody).str,
                       !.timeout = SyncTimeout]

(***************************************************************************)
(* Registrations.                                                          *)
(***************************************************************************)
AccessTokens == {"Bearer A", "Bearer B"}

\* registrationID: remote address, path and CoAP token
registrationID(remote, path, token) ==
    [remote |-> remote, path |-> path, token |-> token]

RegIDs ==
    { registrationID("c1", <<"7">>, "k1"),
      registrationID("c1", <<"7">>, "k2"),
      registrationID("c1", <<"e", "a b">>, "k1") }

\* key of the last-response cache: remote address and path
CacheKey(regID) == [remote |-> regID.remote, path |-> regID.path]
CacheKeys == { CacheKey(r) : r \in RegIDs }

\* statusCodes; codes.BadGateway when the status is not in the table
statusCodes ==
    [s \in {200, 400, 401, 403, 404, 405, 413, 500, 502, 504} |->
        CASE s = 200 -> "Content"
          [] s = 400 -> "BadRequest"
          [] s = 401 -> "Unauthorized"
          [] s = 403 -> "Forbidden"
          [] s = 404 -> "NotFound"
          [] s = 405 -> "MethodNotAllowed"
          [] s = 413 -> "RequestEntityTooLarge"
          [] s = 500 -> "InternalServerError"
          [] s = 502 -> "BadGateway"
          [] s = 504 -> "GatewayTimeout"]

\* the statuses the upstream origin answers with
Statuses == {200, 404, 418}

\* variant: a status without a mapping answered as an internal server error
RespCodeInternal(status) ==
    IF status \in DOMAIN statusCodes THEN statusCodes[status]
    ELSE "InternalServerError"

RespCode(status) ==
    IF status \in DOMAIN statusCodes THEN statusCodes[status] ELSE "BadGateway"

(***************************************************************************)
(* State.                                                                  *)
(***************************************************************************)
VARIABLES
    obs,            \* registration IDs in the table (keys of o.obs)
    accessTokens,   \* access token -> number of observations
    lastResponses,  \* remote + path -> last data (NilBody: none)
    workers,        \* the long-poll goroutines, in the order they started
    reRegistered,   \* history: a register request for an ID in the table
                    \* was handled (recorded by SpecReg only)
    lastSent,       \* history: remote + path -> data of the notification
                    \* WriteMessage was last called with (NilBody: none)
    pathCall,       \* a path and the conversions applied to it
    cborCall,       \* a body and the conversions applied to it
    jcw,            \* a jsonToCBORWriter and the writer it wraps
    gw,             \* a request on its way through the proxies and back
    cli,            \* the sessions of the mobile client and its calls
    ack,            \* the requests the DTLS server is handling
    ctr,            \* the package variable count and the callers of counter
    dc,             \* the package variable dc (dtlsClients) and its callers
    relay           \* the access tokens of one session, from SendRequest to
                    \* the origin

\* the state shared by the goroutines of one process
packageVars == <<ctr, dc, relay>>

\* the variables of the path and body conversions, which the handlers of
\* Observations leave alone
callVars == <<pathCall, cborCall, jcw, gw, cli, ack, packageVars>>

\* the variables of the proxies, the mobile client and the DTLS server
proxyVars == <<gw, cli, ack, packageVars>>

\* the variables of Observations and of its goroutines
observeVars ==
    <<obs, accessTokens, lastResponses, workers, reRegistered, lastSent>>

vars == <<obs, accessTokens, lastResponses, workers, reRegistered, lastSent,
          pathCall, cborCall, jcw, gw, cli, ack, ctr, dc, relay>>

WorkerIDs == 1..MaxWorkers

NoQuery == [since |-> NoParam, timeout |-> NoParam, filter |-> NoParam]
NoMsg == [code |-> "", data |-> NilBody, seq |-> 0]
NoRegID == registrationID("", <<>>, "")

\* no conversion under way
NoCall == [orig |-> <<>>, cur |-> <<>>, ops |-> <<>>]

\* a slot no goroutine was started for yet
FreeWorker ==
    [ pc |-> "free",
      regID |-> NoRegID,
      accessToken |-> "",
      seqNum |-> FirstSeqNum,
      lastRespBody |-> NilBody,
      backupLastRespBody |-> NilBody,
      query |-> NoQuery,
      msg |-> NoMsg,
      \* history the properties speak about; no action reads it
      origQuery |-> NoQuery,
      status |-> 0,
      lastSeq |-> 0,
      prevResp |-> NilBody,
      prevAtPoll |-> NilBody,
      failed |-> FALSE,
      retry |-> FALSE,     \* the round follows a failed transmission
      deregistered |-> FALSE,
      exitCause |-> "" ]

\* NewObservations: nothing registered, nothing sent
NewObservations ==
    /\ obs = {}
    /\ accessTokens = [t \in AccessTokens |-> 0]
    /\ lastResponses = [k \in CacheKeys |-> NilBody]
    /\ workers = [w \in WorkerIDs |-> FreeWorker]
    /\ reRegistered = FALSE
    /\ lastSent = [k \in CacheKeys |-> NilBody]

\* &jsonToCBORWriter{ResponseWriter: w, CBORCodec: codec}: no header set,
\* nothing written; the history fields are empty
NewWriter(canonical) ==
    [canonical |-> canonical,       \* the codec's flag
     contentType |-> "",            \* Header().Get("Content-Type")
     isSendingJSON |-> FALSE,
     statuses |-> <<>>,             \* ResponseWriter.WriteHeader calls
     written |-> <<>>,              \* ResponseWriter.Write calls
     given |-> <<>>,                \* history: statuses WriteHeader was called with
     firstContentType |-> "none",   \* history: the header at the first WriteHeader
     writes |-> <<>>]               \* history: the Write calls

\* no writer in use
NoWriter == NewWriter(FALSE)

\* no request under way in the proxies
NoGateway ==
    [pc |-> "idle", entry |-> "", deploy |-> "", method |-> "",
     reqData |-> [form |-> "none", val |-> [t |-> "null", v |-> "null"]],
     coap |-> [code |-> "", format |-> "",
               confirmable |-> TRUE, \* r.IsConfirmable
               observe |-> "none",   \* the value of the Observe option
               body |-> [form |-> "none", val |-> [t |-> "null", v |-> "null"]]],
     ob |-> TRUE,           \* the handler was given Observations
     calls |-> <<>>,        \* the handlers CoAPHTTPHandler called
     upstream |-> <<>>,     \* the requests the origin was sent
     origin |-> [status |-> 0,
                 body |-> [form |-> "none", val |-> [t |-> "null", v |-> "null"]]],
     wrote |-> <<>>,        \* the statuses WriteHeader of the CoAP writer got
     resp |-> [code |-> "",
               body |-> [form |-> "none", val |-> [t |-> "null", v |-> "null"]]],
     result |-> [status |-> 0,
                 body |-> [form |-> "none", val |-> [t |-> "null", v |-> "null"]]]]

\* no session, no call
MaxSessions == 2

\* a session of the cache as dtls.Dial returns it: no token sent, no
\* channel for notifications
NewSession ==
    [open |-> FALSE, sent |-> "nil", hasCh |-> FALSE, registered |-> FALSE,
     buf |-> <<>>,        \* the channel's buffer
     pending |-> 0,       \* the notification the blocked callback holds
     arrived |-> <<>>,    \* the notifications the callback sent to the channel
     handed |-> <<>>]     \* the notifications SendRequest returned

NoRequest == [method |-> "", path |-> "", token |-> "", body |-> "", since |-> ""]

NoResult == [kind |-> "none", code |-> 0, n |-> 0, next_batch |-> "", empty |-> FALSE]

NoClient ==
    [pc |-> "idle", observeEnabled |-> FALSE,
     conns |-> 0,         \* the session cached for the host, 0 for none
     dialed |-> 0,        \* the sessions established so far
     sess |-> [s \in 1..MaxSessions |-> NewSession],
     req |-> NoRequest,
     conn |-> 0,          \* the session the call uses
     err |-> FALSE,       \* HTTPRequestToCoAP failed before sending
     fails |-> 0,         \* the errors HTTPRequestToCoAP returned in the call
     sends |-> <<>>,      \* the CoAP messages the call transmitted
     result |-> NoResult,
     calls |-> 0,
     pushed |-> 0]

\* no request in the DTLS server
MaxAckRequests == 2

\* a request the DTLS server has not received yet
NoAck ==
    [handler |-> "none",      \* where the handler function of the server is
     timer |-> "none",        \* the timer of time.AfterFunc and its callback
     processed |-> 0,
     wasProcessed |-> 0,
     runningAtFire |-> FALSE, \* ServeCOAP had not returned when the timer fired
     acks |-> 0]              \* the empty ACKs written for the request

NoAcks == [r \in 1..MaxAckRequests |-> NoAck]

\* the goroutines that call counter, and the calls each of them makes
MaxConverters == 2
MaxTokenCalls == 2

\* counter has not been called by the goroutines
NoTokens ==
    [count |-> 0,
     g |-> [c \in 1..MaxConverters |->
              [pc |-> "idle",   \* where the goroutine is in counter
               reg |-> 0,       \* the value it loaded for count++
               calls |-> 0,     \* the calls it has made
               began |-> 0]],   \* the calls that had returned when it called
     log |-> <<>>]              \* the calls that returned, in that order

\* the hosts sessions are dialed to, the goroutines that call
\* getClientForHost, the calls each of them makes, the sessions dialed with
\* success and the calls of SetParams
Hosts == { "h1", "h2" }
MaxGetters == 2
MaxGets == 2
MaxDials == 2
MaxSetParams == 1

\* a goroutine that has not called getClientForHost
NoGetter ==
    [pc |-> "idle",
     host |-> "",
     calls |-> 0,
     with |-> {},        \* the calls for the host in progress when it called
     entry |-> 0,        \* c.conns[host] when it looked
     dialed |-> FALSE,
     cfg |-> 0,          \* the c.dtlsConfig given to dtls.Dial
     since |-> 0,        \* the calls of SetParams that had returned by then
     result |-> 0,
     err |-> FALSE,
     left |-> 0]         \* c.conns[host] when it returned

\* newDTLSClients, nobody calling; sessions are numbered from 1 in the
\* order they were dialed, parameters from 0 in the order they were set
NoDials ==
    [conns |-> [h \in Hosts |-> 0],
     mu |-> 0,                        \* the goroutine that holds c.mu
     dtlsConfig |-> 0,                \* the parameters it was made from
     params |-> 0,                    \* activeConnectionParams
     sessions |-> <<>>,
     g |-> [c \in 1..MaxGetters |-> NoGetter],
     sp |-> [pc |-> "idle", conns |-> {}, calls |-> 0, returned |-> 0]]

\* the goroutines that call SendRequest on one session, and the calls each
\* of them makes
MaxSenders == 2
MaxSends == 2

\* a session nothing was sent on: no token recorded by the client, none
\* remembered by the server ("" is no value)
NoRelay ==
    [sent |-> "",        \* ctxValSentAccessToken of the client's session
     known |-> "",       \* ctxValAccessToken of the server's connection
     t |-> [c \in 1..MaxSenders |->
              [pc |-> "idle", token |-> "", header |-> "", calls |-> 0]],
     net |-> {},         \* the requests sent and not yet handled
     upstream |-> <<>>]  \* the requests given to the next handler

\* the package state at rest
PackageIdle == ctr = NoTokens /\ dc = NoDials /\ relay = NoRelay

\* the proxies, the mobile client and the DTLS server at rest
ProxiesIdle ==
    /\ gw = NoGateway
    /\ cli = NoClient
    /\ ack = NoAcks
    /\ PackageIdle

Init ==
    /\ NewObservations
    /\ pathCall = NoCall
    /\ cborCall = NoCall
    /\ jcw = NoWriter
    /\ ProxiesIdle

(***************************************************************************)
(* The registration table (all under o.mu).                                *)
(***************************************************************************)
\* variant: a table that takes the entry without looking for the ID
addRegistrationAlways(regID) == TRUE

\* addRegistration: whether the table takes the entry
addRegistration(regID) == regID \notin obs

\* removeRegistration: the table and the counts after it
removeRegistrationObs(regID) == obs \ {regID}
removeRegistrationCount(accessToken) ==
    [accessTokens EXCEPT ![accessToken] = @ - 1]

\* getRegistration: whether a client is on record for regID
getRegistration(regID) == regID \in obs

\* safeToRemove
safeToRemove(accessToken) == accessTokens[accessToken] > 1

(***************************************************************************)
(* HandleRegistration.                                                     *)
(***************************************************************************)
\* the goroutine `go o.longPoll(regID, path, r.Token, req)` at its first
\* statement
StartedWorker(regID, accessToken, query) ==
    [FreeWorker EXCEPT !.pc = "head", !.regID = regID,
                       !.accessToken = accessToken,
                       !.query = query, !.origQuery = query]

FreeSlots(slots) == { w \in slots : workers[w].pc = "free" }
NextSlot(slots) ==
    CHOOSE w \in FreeSlots(slots) : \A v \in FreeSlots(slots) : w <= v

\* register == true; slots are the goroutines the specification may start,
\* track says whether it records the requests for an ID in the table
Register(regID, accessToken, query, slots, track) ==
    /\ addRegistration(regID) => FreeSlots(slots) # {}
    /\ IF addRegistration(regID)
       THEN /\ obs' = obs \cup {regID}
            /\ accessTokens' = [accessTokens EXCEPT ![accessToken] = @ + 1]
            /\ workers' = [workers EXCEPT ![NextSlot(slots)] =
                              StartedWorker(regID, accessToken, query)]
       ELSE UNCHANGED <<obs, accessTokens, workers>>
    /\ reRegistered' = (reRegistered \/ (track /\ regID \in obs))
    /\ UNCHANGED <<lastResponses, lastSent, callVars>>

\* register == false
Deregister(regID, accessToken) ==
    /\ accessTokens[accessToken] > -MaxUnderflow
    /\ obs' = removeRegistrationObs(regID)
    /\ accessTokens' = removeRegistrationCount(accessToken)
    /\ workers' = [w \in WorkerIDs |->
                     IF workers[w].pc # "free" /\ workers[w].regID = regID
                     THEN [workers[w] EXCEPT !.deregistered = TRUE]
                     ELSE workers[w]]
    /\ UNCHANGED <<lastResponses, reRegistered, lastSent, callVars>>

HandleRegistration(ids, tokens, queries, slots, track) ==
    \E regID \in ids, accessToken \in tokens :
        \/ \E query \in queries :
               Register(regID, accessToken, query, slots, track)
        \/ Deregister(regID, accessToken)

(***************************************************************************)
(* longPoll, one action per step between two accesses to shared state.     *)
(***************************************************************************)
\* lastRespBody != nil && lastRespBody[0] != '{': convert CBOR to JSON
ConvertLast(b) ==
    IF b # NilBody /\ b.enc # "json" THEN CBORToJSON(b) ELSE b

\* variant: the increment of seqNum left out
NextSeqNumSame(s) == s

\* seqNum++ (a uint32: it wraps at 2^32, far above the bounds)
NextSeqNum(s) == s + 1

\* variant: the body before the round is kept
NotUpdatedBodyKept(prev, respBody) == prev

\* lastRespBody after a response that is not an update
NotUpdatedBody(prev, respBody) == respBody

\* variant: a revert to no body at all
RevertedBodyNone(lastRespBody, backupLastRespBody) == NilBody

\* variant: the revert left out
RevertedBodyAdvanced(lastRespBody, backupLastRespBody) == lastRespBody

\* lastRespBody after a failed transmission that keeps the registration
RevertedBody(lastRespBody, backupLastRespBody) == backupLastRespBody

\* the function returned: only the deferred removeRegistration is left
Returned(me, cause) ==
    [FreeWorker EXCEPT !.pc = "exit", !.regID = me.regID,
                       !.accessToken = me.accessToken,
                       !.deregistered = me.deregistered,
                       !.exitCause = cause]

\* loop head: getRegistration, then the update functions and the call of
\* the upstream handler
LoopHead(w) ==
    LET me == workers[w] IN
    /\ me.pc = "head"
    /\ IF ~getRegistration(me.regID)
       THEN workers' = [workers EXCEPT ![w] = Returned(me, "gone")]
       ELSE LET last == ConvertLast(me.lastRespBody) IN
            workers' = [workers EXCEPT
                ![w].pc = "poll",
                ![w].lastRespBody = last,
                ![w].prevAtPoll = last,
                ![w].query = updateFn(me.regID.path, last, me.query)]
    /\ UNCHANGED <<obs, accessTokens, lastResponses, reRegistered, lastSent, callVars>>

\* the upstream handler returned: status check and hasUpdatedFn
PollReturn(w, status, content, maxSeq) ==
    LET me == workers[w]
        respBody == CBORBody(content)
    IN
    /\ me.pc = "poll"
    /\ IF status # StatusOK
       THEN workers' = [workers EXCEPT
                ![w].pc = "sendErr",
                ![w].status = status,
                ![w].retry = FALSE,
                ![w].msg = [code |-> RespCode(status), data |-> NilBody,
                            seq |-> me.seqNum]]
       ELSE IF ~hasUpdatedFn(me.regID.path, me.lastRespBody, CBORToJSON(respBody))
       THEN workers' = [workers EXCEPT
                ![w].pc = "head",
                ![w].status = status,
                ![w].retry = FALSE,
                ![w].lastRespBody = NotUpdatedBody(me.lastRespBody, respBody),
                ![w].prevResp = respBody]
       ELSE /\ me.seqNum < maxSeq
            /\ workers' = [workers EXCEPT
                ![w].pc = "send",
                ![w].status = status,
                ![w].backupLastRespBody = me.lastRespBody,
                ![w].lastRespBody = respBody,
                ![w].prevResp = respBody,
                ![w].msg = [code |-> "Content", data |-> respBody,
                            seq |-> me.seqNum]]
    /\ UNCHANGED <<obs, accessTokens, lastResponses, reRegistered, lastSent, callVars>>

\* sendResponse up to the write of the last-response cache
Send(w) ==
    LET me == workers[w] IN
    /\ me.pc \in {"send", "sendErr"}
    /\ lastResponses' = [lastResponses EXCEPT ![CacheKey(me.regID)] = me.msg.data]
    /\ workers' = [workers EXCEPT
            ![w].pc = IF me.pc = "send" THEN "write" ELSE "writeErr"]
    /\ UNCHANGED <<obs, accessTokens, reRegistered, lastSent, callVars>>

\* cc.WriteMessage returned for a notification: seqNum++, then the error
\* check
Write(w, ok) ==
    LET me == workers[w] IN
    /\ me.pc = "write"
    /\ workers' = [workers EXCEPT
            ![w].pc = IF ok THEN "head" ELSE "check",
            ![w].seqNum = NextSeqNum(me.seqNum),
            ![w].lastSeq = me.msg.seq,
            ![w].msg = NoMsg,
            ![w].backupLastRespBody = IF ok THEN NilBody ELSE @,
            ![w].retry = FALSE,
            ![w].failed = @ \/ ~ok]
    /\ lastSent' = [lastSent EXCEPT ![CacheKey(me.regID)] = me.msg.data]
    /\ UNCHANGED <<obs, accessTokens, lastResponses, reRegistered, callVars>>

\* cc.WriteMessage returned for the notification of a non-200 status:
\* return, whatever the outcome
WriteErr(w) ==
    LET me == workers[w] IN
    /\ me.pc = "writeErr"
    /\ workers' = [workers EXCEPT ![w] = Returned(me, "status")]
    /\ lastSent' = [lastSent EXCEPT ![CacheKey(me.regID)] = me.msg.data]
    /\ UNCHANGED <<obs, accessTokens, lastResponses, reRegistered, callVars>>

\* safeToRemove after a failed transmission
Check(w) ==
    LET me == workers[w] IN
    /\ me.pc = "check"
    /\ IF safeToRemove(me.accessToken)
       THEN workers' = [workers EXCEPT ![w] = Returned(me, "failure")]
       ELSE workers' = [workers EXCEPT
                ![w].pc = "head",
                ![w].lastRespBody =
                    RevertedBody(me.lastRespBody, me.backupLastRespBody),
                ![w].retry = TRUE,
                ![w].backupLastRespBody = NilBody]
    /\ UNCHANGED <<obs, accessTokens, lastResponses, reRegistered, lastSent, callVars>>

\* the deferred removeRegistration
Exit(w) ==
    LET me == workers[w] IN
    /\ me.pc = "exit"
    /\ obs' = removeRegistrationObs(me.regID)
    /\ accessTokens' = removeRegistrationCount(me.accessToken)
    /\ workers' = [workers EXCEPT ![w].pc = "done"]
    /\ UNCHANGED <<lastResponses, reRegistered, lastSent, callVars>>

longPoll(w, statuses, contents, maxSeq) ==
    \/ LoopHead(w)
    \/ \E status \in statuses, content \in contents :
           PollReturn(w, status, content, maxSeq)
    \/ Send(w)
    \/ \E ok \in BOOLEAN : Write(w, ok)
    \/ WriteErr(w)
    \/ Check(w)
    \/ Exit(w)

(***************************************************************************)
(* Specifications.                                                         *)
(***************************************************************************)
\* Concurrent registrations of one peer on the sync path.
ConcRegIDs == { r \in RegIDs : IsSyncPath(r.path) }
ConcContents == { c \in Contents : c.nb # Absent /\ c.data = 1 }
ConcStatuses == {200, 404}
ConcQueries == { q \in OrigQueries : q.since = NoParam }
ConcTokens == {"Bearer A"}

Next ==
    \/ HandleRegistration(ConcRegIDs, ConcTokens, ConcQueries, WorkerIDs, FALSE)
    \/ \E w \in WorkerIDs : longPoll(w, ConcStatuses, ConcContents, MaxSeq)

Spec == Init /\ [][Next]_vars

\* The same, recording the register requests for an ID that is in the table.
RegContents == { c \in ConcContents : c.nb = "s1" }

NextReg ==
    \/ HandleRegistration(ConcRegIDs, AccessTokens, ConcQueries, WorkerIDs, TRUE)
    \/ \E w \in WorkerIDs : longPoll(w, ConcStatuses, RegContents, MaxSeq)

SpecReg == Init /\ [][NextReg]_vars

\* A single registration, on the sync path or on another path, against
\* every answer of the origin.
SyncRegIDs == { r \in RegIDs : r.token = "k1" }
SyncTokens == {"Bearer A"}
\* the goroutine of the single registration
SyncWorkerIDs == {1}

NextSync ==
    \/ HandleRegistration(SyncRegIDs, SyncTokens, OrigQueries, SyncWorkerIDs, FALSE)
    \/ \E w \in SyncWorkerIDs : longPoll(w, Statuses, Contents, MaxSyncSeq)

SpecSync == Init /\ [][NextSync]_vars

\* One register request, then one deregister request with the registration
\* ID and the access token of that registration.
RegisterFirst ==
    /\ workers[1].pc = "free"
    /\ \E regID \in RegIDs, accessToken \in AccessTokens, query \in OrigQueries :
          Register(regID, accessToken, query, SyncWorkerIDs, FALSE)

DeregisterSame ==
    /\ workers[1].pc # "free"
    /\ ~workers[1].deregistered
    /\ Deregister(workers[1].regID, workers[1].accessToken)

NextPair ==
    \/ RegisterFirst
    \/ DeregisterSame
    \/ \E w \in SyncWorkerIDs : longPoll(w, Statuses, Contents, MaxSyncSeq)

SpecPair == Init /\ [][NextPair]_vars

(***************************************************************************)
(* Properties.                                                             *)
(***************************************************************************)
Started == { w \in WorkerIDs : workers[w].pc # "free" }

\* the goroutine of the entry of regID: the last one started for it
EntryOwner(regID) ==
    LET ws == { w \in Started : workers[w].regID = regID } IN
    CHOOSE w \in ws : \A v \in ws : v <= w

\* the entries of the table that were registered with accessToken
EntriesOf(accessToken) ==
    { regID \in obs : workers[EntryOwner(regID)].accessToken = accessToken }

\* C1: a register followed by a deregister of the same registration ID and
\* access token leaves, once the goroutine of the registration has ended, no
\* entry in the table and a count of 0 for the access token.
C1_RegisterDeregisterLeavesNothing ==
    (workers[1].pc = "done" /\ workers[1].deregistered)
        => /\ workers[1].regID \notin obs
           /\ accessTokens[workers[1].accessToken] = 0

\* C2: the count of an access token is the number of entries of the table
\* that were registered with it, and so never negative.
C2_CountIsNumberOfEntries ==
    \A t \in AccessTokens :
        /\ accessTokens[t] >= 0
        /\ accessTokens[t] = Cardinality(EntriesOf(t))

\* C3: a register request for a registration ID that is in the table adds
\* no entry, increments no count and starts no goroutine.
C3_ReRegisterChangesNothing ==
    [][(~reRegistered /\ reRegistered')
          => /\ obs' = obs
             /\ accessTokens' = accessTokens
             /\ workers' = workers]_vars

C3_Witness ==
    /\ reRegistered
    /\ Cardinality(obs) = 1
    /\ Cardinality(Started) = 1
    /\ \E t \in AccessTokens : accessTokens[t] = 1

\* C4: the sequence numbers of the notifications a goroutine hands to the
\* CoAP runtime start at 2 and strictly increase, failed transmissions and
\* rounds without a notification included.
C4_SeqNumsIncrease ==
    \A w \in WorkerIDs :
        workers[w].pc \in {"write", "writeErr"}
            => IF workers[w].lastSeq = 0
               THEN workers[w].msg.seq = 2
               ELSE workers[w].msg.seq > workers[w].lastSeq

C4_Witness ==
    \E w \in WorkerIDs :
        /\ workers[w].pc = "write"
        /\ workers[w].failed
        /\ workers[w].lastSeq = 2
        /\ workers[w].msg.seq = 3

\* a round that ends with "response not an update"
NotUpdatedRound(w) == workers[w].pc = "poll" /\ workers'[w].pc = "head"

SameObject(a, b) == a.nb = b.nb /\ a.data = b.data

NothingSent(w) ==
    /\ lastResponses' = lastResponses
    /\ workers'[w].seqNum = workers[w].seqNum
    /\ workers'[w].lastSeq = workers[w].lastSeq

\* C5 as claimed: in a round in which hasUpdated returns false no
\* notification is sent and the stored prev body is the same after the round
\* as before it.
C5_PrevRetained ==
    [][\A w \in WorkerIDs :
          NotUpdatedRound(w)
              => /\ NothingSent(w)
                 /\ SameObject(workers'[w].lastRespBody, workers[w].lastRespBody)]_vars

\* C5 as amended: in such a round no notification is sent and the stored
\* prev body becomes the body of the response of that round, as received; on
\* the sync path its next_batch reads the same as that of the body before.
C5_PrevBecomesResponse ==
    [][\A w \in WorkerIDs :
          NotUpdatedRound(w)
              => /\ NothingSent(w)
                 /\ workers'[w].lastRespBody = workers'[w].prevResp
                 /\ workers'[w].lastRespBody.enc = "cbor"
                 /\ NextBatch(CBORToJSON(workers'[w].lastRespBody)).str
                        = NextBatch(workers[w].lastRespBody).str]_vars

C5_Witness ==
    \E w \in WorkerIDs :
        /\ workers[w].pc = "head"
        /\ IsSyncPath(workers[w].regID.path)
        /\ workers[w].prevAtPoll # NilBody
        /\ workers[w].lastRespBody.enc = "cbor"
        /\ workers[w].lastRespBody.nb = workers[w].prevAtPoll.nb
        /\ workers[w].lastRespBody.data # workers[w].prevAtPoll.data

\* the step that follows a failed transmission
FailureDecided(w) == workers[w].pc = "check" /\ workers'[w].pc # "check"

RevertedAndRetrying(w) ==
    /\ workers'[w].pc = "head"
    /\ workers'[w].lastRespBody = workers[w].prevAtPoll

\* C6 as claimed: after a failed transmission with a count greater than 1
\* the prev body is reverted and the goroutine retries instead of exiting.
C6_RevertWhenShared ==
    [][\A w \in WorkerIDs :
          (FailureDecided(w) /\ accessTokens[workers[w].accessToken] > 1)
              => RevertedAndRetrying(w)]_vars

\* C6 as amended: after a failed transmission with a count that is not
\* greater than 1 the prev body is reverted to its value before the
\* transmission and the goroutine retries; with a count greater than 1 it
\* exits.
C6_RevertWhenLast ==
    [][\A w \in WorkerIDs :
          FailureDecided(w)
              => IF accessTokens[workers[w].accessToken] > 1
                 THEN workers'[w].pc = "exit"
                 ELSE RevertedAndRetrying(w)]_vars

C6_Witness ==
    \E w \in WorkerIDs :
        /\ workers[w].pc = "head"
        /\ workers[w].failed
        /\ workers[w].lastSeq = 3
        /\ workers[w].lastRespBody = workers[w].prevAtPoll
        /\ workers[w].lastRespBody # NilBody
        /\ ~SameObject(workers[w].prevResp, workers[w].lastRespBody)

\* C7: a failed transmission removes the registration if and only if the
\* count of its access token is greater than 1, and never removes the only
\* entry of the table that was registered with that access token.
C7_LastStreamNeverRemoved ==
    [][\A w \in WorkerIDs :
          /\ FailureDecided(w)
                => (workers'[w].pc = "exit"
                       <=> accessTokens[workers[w].accessToken] > 1)
          /\ ( /\ workers[w].pc = "exit"
               /\ workers[w].exitCause = "failure"
               /\ workers'[w].pc = "done"
               /\ workers[w].regID \in obs
               /\ EntryOwner(workers[w].regID) = w )
                => EntriesOf(workers[w].accessToken) # {workers[w].regID}]_vars

C9_PollQuery ==
    \A w \in WorkerIDs :
        workers[w].pc = "poll"
            => LET me == workers[w] IN
               IF IsSyncPath(me.regID.path) /\ me.lastRespBody # NilBody
                    /\ me.lastRespBody.nb # Absent
               THEN me.query = [me.origQuery EXCEPT !.since = me.lastRespBody.nb,
                                                    !.timeout = "10000"]
               ELSE (~IsSyncPath(me.regID.path) \/ me.lastRespBody = NilBody)
                        => me.query = me.origQuery

C9_Witness ==
    \E w \in WorkerIDs :
        /\ workers[w].pc = "poll"
        /\ workers[w].origQuery.filter = "f1"
        /\ workers[w].query.filter = "f1"
        /\ workers[w].query.since = "s2"
        /\ workers[w].query.timeout = "10000"

\* C10: once a deregister request for its registration ID was handled, a
\* goroutine at its loop head returns and polls no more.
C10_DeregisteredStopsAtLoopHead ==
    [][\A w \in WorkerIDs :
          ( /\ workers[w].deregistered
            /\ workers[w].pc = "head"
            /\ workers'[w].pc # "head" )
              => workers'[w].pc = "exit"]_vars

\* the registration of goroutine w was deregistered and not registered
\* again while the goroutine waits for the upstream handler
DeregisteredInFlight(w) ==
    /\ workers[w].pc = "poll"
    /\ workers[w].deregistered
    /\ workers[w].regID \notin obs

\* C11: the response of an upstream call that was in flight when its
\* registration was deregistered is discarded: it is not handed to
\* sendResponse, so it is neither stored in the last-response cache nor
\* transmitted.
C11_InFlightResponseDiscarded ==
    [][\A w \in WorkerIDs :
          DeregisteredInFlight(w)
              => workers'[w].pc \notin {"send", "sendErr"}]_vars

\* goroutine w found safeToRemove true after a failed transmission and its
\* deferred removeRegistration ran
RemovedOnFailure(w) ==
    workers[w].pc = "done" /\ workers[w].exitCause = "failure"

\* C12: safeToRemove and the removeRegistration that follows it act as one
\* critical section: two goroutines that share an access token never both
\* find a count greater than 1 and both remove their registration, leaving
\* the access token without an entry.
C12_CheckAndRemoveAtomic ==
    \A w1, w2 \in WorkerIDs :
        ( /\ w1 # w2
          /\ workers[w1].accessToken = workers[w2].accessToken
          /\ workers[w1].regID # workers[w2].regID
          /\ RemovedOnFailure(w1)
          /\ RemovedOnFailure(w2) )
            => EntriesOf(workers[w1].accessToken) # {}

(***************************************************************************)
(* HandleBlockwise: the answer to a non-confirmable GET of a peer for a    *)
(* path; it reads the last-response cache and changes nothing.             *)
(***************************************************************************)
NoResponse == [code |-> "", data |-> NilBody]

HandleBlockwise(remote, path) ==
    LET data == lastResponses[[remote |-> remote, path |-> path]] IN
    IF data # NilBody THEN [code |-> "Content", data |-> data]
    ELSE NoResponse

\* no goroutine is between the cache write of sendResponse and the return of
\* its WriteMessage for this remote and path
NoSendUnderWay(key) ==
    \A w \in WorkerIDs :
        workers[w].pc \in {"write", "writeErr"} => CacheKey(workers[w].regID) # key

\* C13: a block-wise continuation GET for (remote, path) that is handled
\* after notification N was transmitted and before any later notification for
\* that (remote, path) is answered with Content and the body of N, also with
\* several registrations of the peer for the path.
C13_BlockwiseServesLastNotification ==
    \A key \in CacheKeys :
        (lastSent[key] # NilBody /\ NoSendUnderWay(key))
            => HandleBlockwise(key.remote, key.path)
                   = [code |-> "Content", data |-> lastSent[key]]

\* the steps of goroutine w from a non-200 answer on
ErrorNotified(w) == workers[w].pc \in {"sendErr", "writeErr"}
ExitedOnStatus(w) == workers[w].pc = "exit" /\ workers[w].exitCause = "status"

C14_WitnessUnmapped ==
    \E w \in WorkerIDs :
        /\ workers[w].pc = "writeErr"
        /\ workers[w].status = 418
        /\ workers[w].msg.code = "BadGateway"
        /\ workers[w].msg.seq = 3

(***************************************************************************)
(* The path conversions, applied to the paths of requests.                 *)
(***************************************************************************)
\* the longest run of segments after the first one of an input
MaxPathSegs == 3
\* the number of conversions applied to one input
MaxPathOps == 2

\* the dynamic segments requests carry
DynSegs == {"dev", "@u:h", "a b", "a%20b", "#r"}

SeqsUpTo(S, n) == UNION { [1..k -> S] : k \in 0..n }

\* the HTTP path of the endpoint of a row for the parameters args
HTTPPathOf(code, args) ==
    CASE code = "6" -> <<"", "_matrix", "client", "r0", "user", args[1],
                         "filter", args[2]>>
      [] code = "7" -> <<"", "_matrix", "client", "r0", "sync">>
      [] code = "d" -> <<"", "_matrix", "client", "r0", "devices">>
      [] code = "e" -> <<"", "_matrix", "client", "r0", "devices", args[1]>>
      [] code = "n" -> <<"", "_matrix", "client", "r0", "pushrules", "">>

\* the number of parameters of the endpoint of a row
NumParams(code) ==
    CASE code = "6" -> 2
      [] code = "e" -> 1
      [] OTHER -> 0

\* a path with its trailing slash cut, or with one added
ToggleEndSlash(p) ==
    IF Len(p) >= 2 /\ p[Len(p)] = "" THEN SubSeq(p, 1, Len(p) - 1)
    ELSE p \o <<"">>

\* a path without its leading slash
CutSlashPrefix(p) == IF HasSlashPrefix(p) THEN Tail(p) ELSE p

\* HTTP paths of requests for the endpoints of the rows, as they are written
\* in the table and with the end slash and the leading slash varied
EndpointPaths ==
    UNION { { HTTPPathOf(code, args), ToggleEndSlash(HTTPPathOf(code, args)),
              CutSlashPrefix(HTTPPathOf(code, args)) } :
            code \in DOMAIN pathMappings, args \in [1..2 -> DynSegs] }

\* HTTP paths of no endpoint of the table
OtherHTTPPaths ==
    { <<"", "_matrix", "media", "dev">>,
      <<"", "_matrix", "client", "r0", "devices", "dev", "a b">>,
      <<"", "_matrix", "client", "r0", "user", "@u:h", "filter", "">>,
      <<"">>, <<"", "">> }

\* CoAP paths: an enum code or another first segment, then segments
CoAPPaths ==
    UNION { { <<"", first>> \o rest, <<first>> \o rest } :
            first \in DOMAIN pathMappings \cup {"AAA"},
            rest \in SeqsUpTo(DynSegs \cup {""}, MaxPathSegs) }

PathInputs == EndpointPaths \cup OtherHTTPPaths \cup CoAPPaths

InitPath ==
    /\ NewObservations
    /\ cborCall = NoCall
    /\ jcw = NoWriter
    /\ ProxiesIdle
    /\ \E p \in PathInputs : pathCall = [orig |-> p, cur |-> p, ops |-> <<>>]

\* a call of HTTPPathToCoapPath with the current path
ToCoAP ==
    /\ pathCall # NoCall
    /\ Len(pathCall.ops) < MaxPathOps
    /\ \E r \in HTTPPathToCoapPath(pathCall.cur) :
          pathCall' = [pathCall EXCEPT !.cur = r, !.ops = Append(@, "toCoAP")]
    /\ UNCHANGED <<observeVars, cborCall, jcw, proxyVars>>

\* a call of CoAPPathToHTTPPath with the current path
ToHTTP ==
    /\ pathCall # NoCall
    /\ Len(pathCall.ops) < MaxPathOps
    /\ pathCall' = [pathCall EXCEPT !.cur = CoAPPathToHTTPPath(pathCall.cur),
                                    !.ops = Append(@, "toHTTP")]
    /\ UNCHANGED <<observeVars, cborCall, jcw, proxyVars>>

NextPath == ToCoAP \/ ToHTTP

SpecPath == InitPath /\ [][NextPath]_vars

(***************************************************************************)
(* Properties of the path conversions.                                     *)
(***************************************************************************)
\* p, with a leading slash, is the path of an endpoint of the table for
\* some parameters, with or without a slash at its end
EndpointOf(p, code, args) ==
    WithSlashPrefix(p) \in { HTTPPathOf(code, args),
                             ToggleEndSlash(HTTPPathOf(code, args)) }

MatchesTemplate(p) ==
    \E code \in DOMAIN pathMappings :
       \E args \in [1..NumParams(code) -> DynSegs] : EndpointOf(p, code, args)

\* C15, as stated: for every HTTP path p that matches a template,
\* CoAPPathToHTTPPath(HTTPPathToCoapPath(p)) = p, a trailing slash and
\* characters PathEscape rewrites included, and both functions return a path
\* that matches no template unchanged.
C15_PathRoundTrip ==
    /\ (MatchesTemplate(pathCall.orig) /\ pathCall.ops = <<"toCoAP", "toHTTP">>)
          => pathCall.cur = pathCall.orig
    /\ (~MatchesTemplate(pathCall.orig) /\ Len(pathCall.ops) = 1)
          => pathCall.cur = pathCall.orig

\* C15, amended: the round trip of a path that matches a template gives the
\* template itself, with a leading slash and the template's own end, each
\* placeholder filled with PathEscape of the segment of p; a path that
\* matches no template is returned unchanged by HTTPPathToCoapPath, and by
\* CoAPPathToHTTPPath when its first segment is not an enum code.
C15_PathRoundTripEscaped ==
    /\ \A code \in DOMAIN pathMappings :
          \A args \in [1..NumParams(code) -> DynSegs] :
             (/\ EndpointOf(pathCall.orig, code, args)
              /\ pathCall.ops = <<"toCoAP", "toHTTP">>)
                => pathCall.cur =
                      HTTPPathOf(code, [i \in 1..NumParams(code) |->
                                           PathEscape(args[i])])
    /\ (~MatchesTemplate(pathCall.orig) /\ pathCall.ops = <<"toCoAP">>)
          => pathCall.cur = pathCall.orig
    /\ (/\ ~MatchesTemplate(pathCall.orig)
        /\ pathCall.ops = <<"toHTTP">>
        /\ WithSlashPrefix(pathCall.orig)[2] \notin DOMAIN pathMappings)
          => pathCall.cur = pathCall.orig

\* a path written like its template, with segments PathEscape leaves alone,
\* came back as it was
C15_Witness ==
    /\ pathCall.ops = <<"toCoAP", "toHTTP">>
    /\ pathCall.orig = HTTPPathOf("6", <<"@u:h", "dev">>)
    /\ pathCall.cur = pathCall.orig

\* the first segment of a path and the segments after it
FirstSegment(p) == WithSlashPrefix(p)[2]
RestSegments(p) == SubSeq(WithSlashPrefix(p), 3, Len(WithSlashPrefix(p)))

\* C16: CoAPPathToHTTPPath of a known enum code followed by more segments
\* than the template has placeholders returns the template filled in order
\* by the leading segments and ignores the excess; a path whose first
\* segment is no known code is returned unchanged.
C16_ExcessSegmentsDropped ==
    pathCall.ops = <<"toHTTP">> =>
       LET code == FirstSegment(pathCall.orig)
           rest == RestSegments(pathCall.orig)
       IN  /\ (code \in DOMAIN pathMappings /\ Len(rest) > NumParams(code))
                 => pathCall.cur =
                       HTTPPathOf(code, [i \in 1..NumParams(code) |->
                                            PathEscape(rest[i])])
           /\ code \notin DOMAIN pathMappings
                 => pathCall.cur = pathCall.orig

\* "/e/a b/dev": the second segment after the code was dropped
C16_Witness ==
    /\ pathCall.ops = <<"toHTTP">>
    /\ pathCall.orig = <<"", "e", "a b", "dev">>
    /\ pathCall.cur = <<"", "_matrix", "client", "r0", "devices", "a%20b">>

\* C17: CoAPPathToHTTPPath of a known enum code followed by fewer segments
\* than the template has placeholders returns a truncated path, the prefix of
\* the template that ends at the last placeholder it could fill, and its
\* result never has a literal {placeholder} segment.
C17_MissingSegmentsTruncate ==
    LET code == FirstSegment(pathCall.orig)
        rest == RestSegments(pathCall.orig)
    IN  (/\ pathCall.ops = <<"toHTTP">>
         /\ code \in DOMAIN pathMappings
         /\ Len(rest) < NumParams(code))
           => /\ \A i \in 1..Len(pathCall.cur) :
                    pathCall.cur[i] \notin Placeholders
              /\ Len(pathCall.cur) < Len(pathMappings[code])

\* "/6/@u:h": the second placeholder of the template is in the result
C17_Witness ==
    /\ pathCall.ops = <<"toHTTP">>
    /\ pathCall.orig = <<"", "6", "@u:h">>
    /\ pathCall.cur = <<"", "_matrix", "client", "r0", "user", "@u:h",
                        "filter", "{filterId}">>

\* the place of the i-th placeholder in the template of a row
ParamPosition(code, i) ==
    CASE code = "6" -> IF i = 1 THEN 6 ELSE 8
      [] code = "e" -> 6

\* C18: CoAPPathToHTTPPath path-escapes every segment it puts in the place
\* of a placeholder; HTTPPathToCoapPath copies the matched dynamic segments
\* as they are, escaping and unescaping nothing.
C18_EscapeOnlyTowardsHTTP ==
    /\ pathCall.ops = <<"toHTTP">> =>
          LET code == FirstSegment(pathCall.orig)
              rest == RestSegments(pathCall.orig)
          IN  code \in DOMAIN pathMappings =>
                 \A i \in 1..NumParams(code) :
                    i <= Len(rest) =>
                       pathCall.cur[ParamPosition(code, i)] = PathEscape(rest[i])
    /\ pathCall.ops = <<"toCoAP">> =>
          \A code \in DOMAIN pathMappings :
             \A args \in [1..NumParams(code) -> DynSegs] :
                EndpointOf(pathCall.orig, code, args)
                   => pathCall.cur = <<"", code>> \o args

\* "/e/#r": the segment went into the HTTP path escaped
C18_Witness ==
    /\ pathCall.ops = <<"toHTTP">>
    /\ pathCall.orig = <<"", "e", "#r">>
    /\ pathCall.cur = <<"", "_matrix", "client", "r0", "devices", "%23r">>

\* ".../devices/a%20b": the segment went into the CoAP path as it was
C18_WitnessCopied ==
    /\ pathCall.ops = <<"toCoAP">>
    /\ pathCall.orig = <<"", "_matrix", "client", "r0", "devices", "a%20b">>
    /\ pathCall.cur = <<"", "e", "a%20b">>

(***************************************************************************)
(* The CBOR codec.  A JSON text is a term [t, v]: objects are sequences of *)
(* members in the order they are written, numbers are the tokens as they   *)
(* are written.  A Go value (interface{}) is a term [t, v] too: a map is a *)
(* set of entries with distinct keys, a float64 is named by its shortest   *)
(* token.  A CBOR data item is written as the Go value it decodes to.      *)
(***************************************************************************)
JNull == [t |-> "null", v |-> "null"]
JBool(b) == [t |-> "bool", v |-> b]
JNum(tok) == [t |-> "num", v |-> tok]
JStr(s) == [t |-> "str", v |-> s]
JArr(elems) == [t |-> "arr", v |-> elems]
JObj(members) == [t |-> "obj", v |-> members]

GoNil == [t |-> "nil", v |-> "nil"]
GoBool(b) == [t |-> "bool", v |-> b]
GoFloat(tok) == [t |-> "float64", v |-> tok]
GoInt(n) == [t |-> "int", v |-> n]
GoString(s) == [t |-> "string", v |-> s]
GoSlice(elems) == [t |-> "slice", v |-> elems]
GoMap(entries) == [t |-> "map", v |-> entries]

\* two rows of the key dictionary
v1cborKeyToNum == [type |-> 2, content |-> 3]

\* init(): the dictionary, reversed
v1cborNumToKey ==
    [n \in { v1cborKeyToNum[k] : k \in DOMAIN v1cborKeyToNum } |->
        CHOOSE k \in DOMAIN v1cborKeyToNum : v1cborKeyToNum[k] = n]

\* the float64 a number token is read as, named by its shortest token
ParseFloat(tok) ==
    CASE tok = "2.0" -> "2"
      [] tok = "2e0" -> "2"
      [] OTHER -> tok

\* fmt.Sprintf("%d", n), and the digits json.Marshal writes for an integer
Sprintf_d(n) ==
    CASE n = 2 -> "2"
      [] n = 3 -> "3"
      [] n = 7 -> "7"
      [] n = 11 -> "11"
      [] n = 12 -> "12"

\* the strings that occur as keys, in the order sort.Strings gives
KeyOrder == <<"2", "3", "7", "content", "type", "x">>

SortStrings(S) == SelectSeq(KeyOrder, LAMBDA k : k \in S)

RECURSIVE SortInts(_)
SortInts(S) ==
    IF S = {} THEN <<>>
    ELSE LET m == CHOOSE x \in S : \A y \in S : x <= y
         IN  <<m>> \o SortInts(S \ {m})

\* json.Decode into interface{}: of two members with one name the later
\* one stays
RECURSIVE Unmarshal(_)
Unmarshal(text) ==
    CASE text.t = "null" -> GoNil
      [] text.t = "bool" -> GoBool(text.v)
      [] text.t = "num" -> GoFloat(ParseFloat(text.v))
      [] text.t = "str" -> GoString(text.v)
      [] text.t = "arr" ->
            GoSlice([i \in 1..Len(text.v) |-> Unmarshal(text.v[i])])
      [] text.t = "obj" ->
            GoMap({ [k |-> GoString(text.v[i].k), v |-> Unmarshal(text.v[i].v)] :
                    i \in { i \in 1..Len(text.v) :
                               \A j \in (i + 1)..Len(text.v) :
                                  text.v[j].k # text.v[i].k } })

\* the value a map holds under a key
MapValue(entries, key) == (CHOOSE e \in entries : e.k = key).v

\* json.Marshal: members in the order of their names, numbers in their
\* shortest form
RECURSIVE Marshal(_)
Marshal(g) ==
    CASE g.t = "nil" -> JNull
      [] g.t = "bool" -> JBool(g.v)
      [] g.t = "float64" -> JNum(g.v)
      [] g.t = "int" -> JNum(Sprintf_d(g.v))
      [] g.t = "string" -> JStr(g.v)
      [] g.t = "slice" -> JArr([i \in 1..Len(g.v) |-> Marshal(g.v[i])])
      [] g.t = "map" ->
            LET keys == SortStrings({ e.k.v : e \in g.v })
            IN  JObj([i \in 1..Len(keys) |->
                        [k |-> keys[i],
                         v |-> Marshal(MapValue(g.v, GoString(keys[i])))]])

\* gomatrixserverlib.CanonicalJSON: the members of every object sorted
RECURSIVE CanonicalJSON(_)
CanonicalJSON(text) ==
    CASE text.t = "arr" ->
            JArr([i \in 1..Len(text.v) |-> CanonicalJSON(text.v[i])])
      [] text.t = "obj" ->
            LET keys == SortStrings({ text.v[i].k : i \in 1..Len(text.v) })
                last(k) == CHOOSE i \in 1..Len(text.v) :
                              /\ text.v[i].k = k
                              /\ \A j \in (i + 1)..Len(text.v) : text.v[j].k # k
            IN  JObj([i \in 1..Len(keys) |->
                        [k |-> keys[i],
                         v |-> CanonicalJSON(text.v[last(keys[i])].v)]])
      [] OTHER -> text

\* variant: a string that is in the dictionary is replaced wherever it is
RECURSIVE jsonInterfaceToCBORInterfaceValues(_, _)
jsonInterfaceToCBORInterfaceValues(jsonInt, lookup) ==
    CASE jsonInt.t = "nil" -> GoNil
      [] jsonInt.t = "slice" ->
            GoSlice([i \in 1..Len(jsonInt.v) |->
                        jsonInterfaceToCBORInterfaceValues(jsonInt.v[i], lookup)])
      [] jsonInt.t = "map" ->
            GoMap({ [k |-> IF e.k.v \in DOMAIN lookup
                           THEN GoInt(lookup[e.k.v]) ELSE e.k,
                     v |-> jsonInterfaceToCBORInterfaceValues(e.v, lookup)] :
                    e \in jsonInt.v })
      [] jsonInt.t = "string" ->
            IF jsonInt.v \in DOMAIN lookup THEN GoInt(lookup[jsonInt.v])
            ELSE jsonInt
      [] OTHER -> jsonInt

\* nil, slice and map as the code has them; bool, float64 and string are
\* returned as they are
RECURSIVE jsonInterfaceToCBORInterface(_, _)
jsonInterfaceToCBORInterface(jsonInt, lookup) ==
    CASE jsonInt.t = "nil" -> GoNil
      [] jsonInt.t = "slice" ->
            GoSlice([i \in 1..Len(jsonInt.v) |->
                        jsonInterfaceToCBORInterface(jsonInt.v[i], lookup)])
      [] jsonInt.t = "map" ->
            GoMap({ [k |-> IF e.k.v \in DOMAIN lookup
                           THEN GoInt(lookup[e.k.v]) ELSE e.k,
                     v |-> jsonInterfaceToCBORInterface(e.v, lookup)] :
                    e \in jsonInt.v })
      [] OTHER -> jsonInt

RECURSIVE cborInterfaceToJSONInterface(_, _)

\* loop all int keys and resolve them fully
RECURSIVE WriteIntKeys(_, _, _, _)
WriteIntKeys(result, intKeys, intMap, lookup) ==
    IF intKeys = <<>> THEN result
    ELSE LET ik == Head(intKeys)
             kstr == IF ik \in DOMAIN lookup THEN lookup[ik] ELSE Sprintf_d(ik)
         IN  WriteIntKeys(
                (kstr :> cborInterfaceToJSONInterface(intMap[ik], lookup)) @@ result,
                Tail(intKeys), intMap, lookup)

\* variant: a name that is in the result already keeps its value
RECURSIVE WriteStrKeysKeep(_, _, _, _)
WriteStrKeysKeep(result, strKeys, m, lookup) ==
    IF strKeys = <<>> THEN result
    ELSE LET is == Head(strKeys)
         IN  WriteStrKeysKeep(
                result @@
                (is :> cborInterfaceToJSONInterface(MapValue(m, GoString(is)), lookup)),
                Tail(strKeys), m, lookup)

\* loop all str keys and resolve them fully: this clobbers the int keys that
\* were resolved to the same name
RECURSIVE WriteStrKeys(_, _, _, _)
WriteStrKeys(result, strKeys, m, lookup) ==
    IF strKeys = <<>> THEN result
    ELSE LET is == Head(strKeys)
         IN  WriteStrKeys(
                (is :> cborInterfaceToJSONInterface(MapValue(m, GoString(is)), lookup))
                @@ result,
                Tail(strKeys), m, lookup)

\* the map before the first write
EmptyResult == [s \in {} |-> GoNil]

cborInterfaceToJSONInterface(cborInt, lookup) ==
    CASE cborInt.t = "nil" -> GoNil
      [] cborInt.t = "slice" ->
            GoSlice([i \in 1..Len(cborInt.v) |->
                        cborInterfaceToJSONInterface(cborInt.v[i], lookup)])
      [] cborInt.t = "map" ->
            LET m == cborInt.v
                strKeys == { e.k.v : e \in { x \in m : x.k.t = "string" } }
                intKeys == { e.k.v : e \in { x \in m : x.k.t = "int" } }
                intMap == [ik \in intKeys |-> MapValue(m, GoInt(ik))]
                result ==
                    WriteStrKeys(
                       WriteIntKeys(EmptyResult, SortInts(intKeys), intMap, lookup),
                       SortStrings(strKeys), m, lookup)
            IN  GoMap({ [k |-> GoString(s), v |-> result[s]] : s \in DOMAIN result })
      [] OTHER -> cborInt

\* CBORCodecV1.CBORToJSON
CBORCodecV1_CBORToJSON(canonical, input) ==
    LET intermediate == cborInterfaceToJSONInterface(input, v1cborNumToKey)
        b == Marshal(intermediate)
    IN  IF canonical THEN CanonicalJSON(b) ELSE b

\* CBORCodecV1.JSONToCBOR
CBORCodecV1_JSONToCBOR(canonical, input) ==
    jsonInterfaceToCBORInterface(Unmarshal(input), v1cborKeyToNum)

(***************************************************************************)
(* The codec, applied to JSON texts and to CBOR data items.                *)
(***************************************************************************)
\* the most elements of an array and members of an object
MaxJSONLen == 2
\* the number of times a value is put inside another array or object
MaxJSONNest == 1
\* the number of conversions applied to one input
MaxCBOROps == 2

JSONScalars == { JNull, JBool(TRUE), JNum("2"), JNum("2.0"), JStr("type") }

\* names of members: two of the dictionary, two not in it
JSONKeys == { "type", "content", "x", "2" }

\* the members of an object, no name twice
MemberSeqs(vals, n) ==
    { s \in SeqsUpTo([k : JSONKeys, v : vals], n) :
         \A i, j \in 1..Len(s) : s[i].k = s[j].k => i = j }

JSONLevel(vals) ==
    vals \cup { JArr(s) : s \in SeqsUpTo(vals, MaxJSONLen) }
         \cup { JObj(s) : s \in MemberSeqs(vals, MaxJSONLen) }

RECURSIVE JSONTexts(_)
JSONTexts(d) ==
    IF d = 0 THEN JSONLevel(JSONScalars)
    ELSE LET sub == JSONTexts(d - 1)
         IN  sub \cup { JArr(<<x>>) : x \in sub }
                 \cup { JObj(<<[k |-> key, v |-> x]>>) : key \in JSONKeys, x \in sub }

JSONInputs == JSONTexts(MaxJSONNest)

\* keys of CBOR maps: an integer of the dictionary and one that is not, and
\* the strings they resolve to
CBORKeys == { GoInt(2), GoInt(7), GoString("type"), GoString("7"), GoString("x") }

CBORScalars == { GoInt(11), GoInt(12), GoString("type") }

\* the entries of a map, no key twice
EntrySets(vals, n) ==
    { m \in SUBSET [k : CBORKeys, v : vals] :
         /\ Cardinality(m) <= n
         /\ \A e, f \in m : e.k = f.k => e = f }

CBORLevel(vals) ==
    vals \cup { GoSlice(s) : s \in SeqsUpTo(vals, MaxJSONLen) }
         \cup { GoMap(m) : m \in EntrySets(vals, MaxJSONLen) }

RECURSIVE CBORItems(_)
CBORItems(d) ==
    IF d = 0 THEN CBORLevel(CBORScalars)
    ELSE LET sub == CBORItems(d - 1)
         IN  sub \cup { GoSlice(<<x>>) : x \in sub }
                 \cup { GoMap({[k |-> key, v |-> x]}) : key \in CBORKeys, x \in sub }

CBORInputs == CBORItems(MaxJSONNest)

InitCBOR ==
    /\ NewObservations
    /\ pathCall = NoCall
    /\ jcw = NoWriter
    /\ ProxiesIdle
    /\ \E in \in { [form |-> "json", val |-> x] : x \in JSONInputs }
               \cup { [form |-> "cbor", val |-> x] : x \in CBORInputs } :
          cborCall = [orig |-> in, cur |-> in, ops |-> <<>>]

\* a call of JSONToCBOR with the current text
CallJSONToCBOR ==
    /\ Len(cborCall.ops) < MaxCBOROps
    /\ cborCall.cur.form = "json"
    /\ \E canonical \in BOOLEAN :
          cborCall' =
             [cborCall EXCEPT
                !.cur = [form |-> "cbor",
                         val |-> CBORCodecV1_JSONToCBOR(canonical, cborCall.cur.val)],
                !.ops = Append(@, IF canonical THEN "toCBORCanonical" ELSE "toCBOR")]
    /\ UNCHANGED <<observeVars, pathCall, jcw, proxyVars>>

\* a call of CBORToJSON with the current data item
CallCBORToJSON ==
    /\ Len(cborCall.ops) < MaxCBOROps
    /\ cborCall.cur.form = "cbor"
    /\ \E canonical \in BOOLEAN :
          cborCall' =
             [cborCall EXCEPT
                !.cur = [form |-> "json",
                         val |-> CBORCodecV1_CBORToJSON(canonical, cborCall.cur.val)],
                !.ops = Append(@, IF canonical THEN "toJSONCanonical" ELSE "toJSON")]
    /\ UNCHANGED <<observeVars, pathCall, jcw, proxyVars>>

NextCBOR == CallJSONToCBOR \/ CallCBORToJSON

SpecCBOR == InitCBOR /\ [][NextCBOR]_vars

(***************************************************************************)
(* Properties of the codec.                                                *)
(***************************************************************************)
\* the canonical form of a JSON text: numbers in their shortest form, the
\* members of every object in the order of their names
RECURSIVE CanonicalForm(_)
CanonicalForm(text) ==
    CASE text.t = "num" ->
            JNum(IF text.v \in {"2.0", "2e0"} THEN "2" ELSE text.v)
      [] text.t = "arr" ->
            JArr([i \in 1..Len(text.v) |-> CanonicalForm(text.v[i])])
      [] text.t = "obj" ->
            LET at(k) == CHOOSE i \in 1..Len(text.v) : text.v[i].k = k
                keys == SelectSeq(KeyOrder,
                                  LAMBDA k : \E i \in 1..Len(text.v) : text.v[i].k = k)
            IN  JObj([i \in 1..Len(keys) |->
                        [k |-> keys[i], v |-> CanonicalForm(text.v[at(keys[i])].v)]])
      [] OTHER -> text

\* the key a member name is written as: its number when the dictionary has
\* the name, the name itself otherwise
KeyOf(name) ==
    CASE name = "type" -> GoInt(2)
      [] name = "content" -> GoInt(3)
      [] OTHER -> GoString(name)

\* item is text with nothing but the names of members replaced
RECURSIVE KeysOnly(_, _)
KeysOnly(text, item) ==
    CASE text.t = "null" -> item = GoNil
      [] text.t = "bool" -> item = GoBool(text.v)
      [] text.t = "num" -> item \in { GoFloat("2"), GoFloat(text.v) }
                           /\ CanonicalForm(text) = JNum(item.v)
      [] text.t = "str" -> item = GoString(text.v)
      [] text.t = "arr" ->
            /\ item.t = "slice"
            /\ Len(item.v) = Len(text.v)
            /\ \A i \in 1..Len(text.v) : KeysOnly(text.v[i], item.v[i])
      [] text.t = "obj" ->
            /\ item.t = "map"
            /\ Cardinality(item.v) = Len(text.v)
            /\ \A i \in 1..Len(text.v) :
                  \E e \in item.v : /\ e.k = KeyOf(text.v[i].k)
                                    /\ KeysOnly(text.v[i].v, e.v)

\* C19: for every JSON value j, CBORToJSON(JSONToCBOR(j)) is j up to the
\* representation of numbers and the order of members, and is the canonical
\* form of j in canonical mode; JSONToCBOR replaces names of the dictionary
\* where they are names of members and nowhere else.
C19_JSONRoundTrip ==
    cborCall.orig.form = "json" =>
       /\ Len(cborCall.ops) = 2 =>
             /\ cborCall.cur.form = "json"
             /\ CanonicalForm(cborCall.cur.val) = CanonicalForm(cborCall.orig.val)
             /\ cborCall.ops[2] = "toJSONCanonical"
                   => cborCall.cur.val = CanonicalForm(cborCall.orig.val)
       /\ Len(cborCall.ops) = 1 =>
             /\ cborCall.cur.form = "cbor"
             /\ KeysOnly(cborCall.orig.val, cborCall.cur.val)

\* an object whose member names are in the dictionary, with such a name as
\* a value too, came back with its members in another order and its number
\* in another form
C19_Witness ==
    /\ cborCall.ops = <<"toCBOR", "toJSON">>
    /\ cborCall.orig.val = JObj(<<[k |-> "type", v |-> JStr("type")],
                                  [k |-> "content", v |-> JNum("2.0")]>>)
    /\ cborCall.cur.val = JObj(<<[k |-> "content", v |-> JNum("2")],
                                 [k |-> "type", v |-> JStr("type")]>>)

\* the name an integer key is written as: the name the reverse dictionary
\* has for it, its decimal digits otherwise
ResolvedName(n) ==
    CASE n = 2 -> "type"
      [] n = 3 -> "content"
      [] n = 7 -> "7"

\* the JSON text of a scalar of the CBOR inputs
ScalarText(x) ==
    CASE x = GoInt(11) -> JNum("11")
      [] x = GoInt(12) -> JNum("12")
      [] x = GoString("type") -> JStr("type")

\* whenever the map m has a string key and an integer key of one name, the
\* object has one member of that name, with the value of the string key
StringKeyWins(m, object) ==
    \A es, en \in m :
       (/\ es.k.t = "string"
        /\ en.k.t = "int"
        /\ ResolvedName(en.k.v) = es.k.v
        /\ es.v \in CBORScalars)
          => /\ object.t = "obj"
             /\ Cardinality({ i \in 1..Len(object.v) : object.v[i].k = es.k.v }) = 1
             /\ \A i \in 1..Len(object.v) :
                   object.v[i].k = es.k.v => object.v[i].v = ScalarText(es.v)

\* C20: when a CBOR map has a string key s and an integer key n that resolve
\* to one JSON name (the reverse dictionary maps n to s, or n is not in it
\* and s is its decimal string), the JSON object has exactly one member of
\* that name and its value is the one stored under the string key.
C20_StringKeyWins ==
    (/\ cborCall.orig.form = "cbor"
     /\ Len(cborCall.ops) = 1)
       => LET item == cborCall.orig.val
              text == cborCall.cur.val
          IN  /\ item.t = "map" => StringKeyWins(item.v, text)
              /\ (item.t = "slice" /\ Len(item.v) = 1 /\ item.v[1].t = "map")
                    => StringKeyWins(item.v[1].v, text.v[1])

\* the map of TestCBORDuplicateKey, with the name "type" and its number 2
C20_Witness ==
    /\ cborCall.ops = <<"toJSON">>
    /\ cborCall.orig.val = GoMap({ [k |-> GoString("type"), v |-> GoInt(11)],
                                   [k |-> GoInt(2), v |-> GoInt(12)] })
    /\ cborCall.cur.val = JObj(<<[k |-> "type", v |-> JNum("11")]>>)

\* the same with an integer the dictionary does not have
C20_WitnessUnmapped ==
    /\ cborCall.ops = <<"toJSON">>
    /\ cborCall.orig.val = GoMap({ [k |-> GoString("7"), v |-> GoInt(11)],
                                   [k |-> GoInt(7), v |-> GoInt(12)] })
    /\ cborCall.cur.val = JObj(<<[k |-> "7", v |-> JNum("11")]>>)

(***************************************************************************)
(* jsonToCBORWriter: the calls a handler makes on the writer it was given. *)
(***************************************************************************)
\* the number of calls a handler makes on its writer
MaxWriterCalls == 4

ContentTypes == { "application/json", "text/html" }

\* the statuses a handler answers with
WriterStatuses == { 200, 400 }

NoBytes == [form |-> "none", val |-> JNull]

\* the bytes a handler writes: a JSON object, and bytes that are not JSON
WriterData ==
    { [form |-> "json",
       val |-> JObj(<<[k |-> "type", v |-> JStr("M_UNKNOWN")],
                      [k |-> "error", v |-> JStr("something")]>>)],
      [form |-> "text", val |-> JStr("<html>")] }

WriterCalls == Len(jcw.given) + Len(jcw.writes)

InitWriter ==
    /\ NewObservations
    /\ pathCall = NoCall
    /\ cborCall = NoCall
    /\ ProxiesIdle
    /\ \E canonical \in BOOLEAN : jcw = NewWriter(canonical)

\* j.Header().Set("Content-Type", ct) by the handler
SetContentType ==
    /\ WriterCalls < MaxWriterCalls
    /\ \E ct \in ContentTypes :
          /\ ct # jcw.contentType
          /\ jcw' = [jcw EXCEPT !.contentType = ct]
    /\ UNCHANGED <<observeVars, pathCall, cborCall, proxyVars>>

\* jsonToCBORWriter.WriteHeader
WriteHeader ==
    /\ WriterCalls < MaxWriterCalls
    /\ \E statusCode \in WriterStatuses :
          LET seen == [jcw EXCEPT
                         !.given = Append(@, statusCode),
                         !.firstContentType =
                            IF @ = "none" THEN jcw.contentType ELSE @]
          IN  jcw' =
                 IF jcw.isSendingJSON THEN seen
                 ELSE IF jcw.contentType = "application/json"
                      THEN [seen EXCEPT !.isSendingJSON = TRUE,
                                        !.contentType = "application/cbor",
                                        !.statuses = Append(@, statusCode)]
                      ELSE [seen EXCEPT !.statuses = Append(@, statusCode)]
    /\ UNCHANGED <<observeVars, pathCall, cborCall, proxyVars>>

\* jsonToCBORWriter.Write; bytes that are not JSON make JSONToCBOR fail, and
\* nothing is written then
WriterWrite ==
    /\ WriterCalls < MaxWriterCalls
    /\ \E data \in WriterData :
          LET output ==
                 IF ~jcw.isSendingJSON THEN data
                 ELSE IF data.form = "json"
                      THEN [form |-> "cbor",
                            val |-> CBORCodecV1_JSONToCBOR(jcw.canonical, data.val)]
                      ELSE NoBytes
          IN  jcw' = [jcw EXCEPT
                        !.written = IF output = NoBytes THEN @
                                    ELSE Append(@, output),
                        !.writes = Append(@, [in |-> data, out |-> output,
                                              firstContentType |->
                                                 jcw.firstContentType])]
    /\ UNCHANGED <<observeVars, pathCall, cborCall, proxyVars>>

NextWriter == SetContentType \/ WriteHeader \/ WriterWrite

SpecWriter == InitWriter /\ [][NextWriter]_vars

\* C21: the writer converts the bytes of a Write from JSON to CBOR, and has
\* rewritten Content-Type to application/cbor, if and only if Content-Type
\* was application/json when WriteHeader was first called; in every other
\* sequence of calls the bytes go through unchanged.  The status given to
\* WriteHeader reaches the wrapped writer unchanged and once.
C21_ConvertsIffJSONAtFirstWriteHeader ==
    /\ \A i \in 1..Len(jcw.writes) :
          LET w == jcw.writes[i] IN
          IF w.firstContentType = "application/json"
          THEN w.in.form = "json"
                  => /\ w.out.form = "cbor"
                     /\ KeysOnly(w.in.val, w.out.val)
          ELSE w.out = w.in
    /\ jcw.given # <<>>
          => /\ jcw.statuses # <<>>
             /\ jcw.statuses[1] = jcw.given[1]
             /\ Len(jcw.given) = 1 => Len(jcw.statuses) = 1

\* the header was not application/json at the first WriteHeader, and yet a
\* JSON body went to the wrapped writer as CBOR
C21_Witness ==
    /\ jcw.writes # <<>>
    /\ jcw.writes[1].firstContentType = "text/html"
    /\ jcw.writes[1].in.form = "json"
    /\ jcw.writes[1].out.form = "cbor"

\* the test: application/json set, WriteHeader(400), Write of a JSON object
C21_WitnessJSON ==
    /\ jcw.given = <<400>>
    /\ jcw.statuses = <<400>>
    /\ jcw.contentType = "application/cbor"
    /\ Len(jcw.writes) = 1
    /\ jcw.writes[1].firstContentType = "application/json"
    /\ jcw.writes[1].out.form = "cbor"

(***************************************************************************)
(* One request through the proxies: the HTTP caller, the client proxy and  *)
(* SendRequest, the CoAP server with its HTTP handler, the origin, and the *)
(* way back.  A request can also reach the CoAP server as it is.           *)
(***************************************************************************)
\* methodCodes, by the number of the request code
methodCodes ==
    [c \in {"0.01", "0.02", "0.03", "0.04"} |->
        CASE c = "0.01" -> "GET"
          [] c = "0.02" -> "POST"
          [] c = "0.03" -> "PUT"
          [] c = "0.04" -> "DELETE"]

\* init(): methodCodes reversed
methodToCodes ==
    [m \in { methodCodes[c] : c \in DOMAIN methodCodes } |->
        CHOOSE c \in DOMAIN methodCodes : methodCodes[c] = m]

\* init(): statusCodes reversed
responseCodes ==
    [c \in { statusCodes[st] : st \in DOMAIN statusCodes } |->
        CHOOSE st \in DOMAIN statusCodes : statusCodes[st] = c]

\* contentTypeToContentFormat; AppOctets when the type is not in the table
ContentFormat(cType) ==
    CASE cType = "application/json" -> "AppJSON"
      [] cType = "application/cbor" -> "AppCBOR"
      [] cType = "application/octet-stream" -> "AppOctets"
      [] cType = "text/plain" -> "TextPlain"
      [] OTHER -> "AppOctets"

\* contentFormatToContentType
ContentType(format) ==
    CASE format = "AppJSON" -> "application/json"
      [] format = "AppCBOR" -> "application/cbor"
      [] format = "TextPlain" -> "text/plain"
      [] format = "AppOctets" -> "application/octet-stream"
      [] OTHER -> ""

\* Codec.JSONToCBOR of bytes: an error when they are not JSON
BytesToCBOR(data) ==
    IF data.form = "json"
    THEN [ok |-> TRUE,
          out |-> [form |-> "cbor", val |-> CBORCodecV1_JSONToCBOR(FALSE, data.val)]]
    ELSE [ok |-> FALSE, out |-> NoBytes]

\* Codec.CBORToJSON of bytes: an error when they are not CBOR
BytesToJSON(data) ==
    IF data.form = "cbor"
    THEN [ok |-> TRUE,
          out |-> [form |-> "json", val |-> CBORCodecV1_CBORToJSON(FALSE, data.val)]]
    ELSE [ok |-> FALSE, out |-> NoBytes]

TextBytes(s) == [form |-> "text", val |-> JStr(s)]

\* coapResponseWriter.Write: the stored status as a CoAP code, codes.Empty
\* when the table does not have it
SetResponse(statusCode, b) ==
    [code |-> IF statusCode \in DOMAIN statusCodes THEN statusCodes[statusCode]
              ELSE "Empty",
     body |-> b]

NoResp == [code |-> "", body |-> NoBytes]

\* the response of the client proxy when SendRequest returned nil
ProxyFailure ==
    [status |-> 502,
     body |-> [form |-> "json",
               val |-> JObj(<<[k |-> "errcode", v |-> JStr("PROXY")],
                              [k |-> "error",
                               v |-> JStr("failed to forward request to homeserver")]>>)]]

\* the methods of HTTP callers, one of them without a CoAP code
GatewayMethods == { "GET", "POST", "PATCH" }

\* the request codes of CoAP clients, one of them without an HTTP method
GatewayCodes == { "0.01", "0.02", "0.05" }

\* the bodies of a request and of the origin's response
GatewayJSON ==
    [form |-> "json",
     val |-> JObj(<<[k |-> "type", v |-> JStr("M_NOT_FOUND")],
                    [k |-> "x", v |-> JNum("2")]>>)]

\* the values of the Observe option: none, register, deregister, another
ObserveOptions == { "none", "0", "1", "5" }

\* the statuses the origin answers with: those of the table, 415 and 429
OriginStatuses == { 200, 400, 401, 403, 404, 405, 413, 415, 429, 500, 502, 504 }

OriginBodies == { GatewayJSON, TextBytes("<html>"), NoBytes }

InitGateway ==
    /\ NewObservations
    /\ pathCall = NoCall
    /\ cborCall = NoCall
    /\ jcw = NoWriter
    /\ cli = NoClient
    /\ ack = NoAcks
    /\ PackageIdle
    /\ \E deploy \in {"proxy", "handler"} :
          \/ \E method \in GatewayMethods :
                \E data \in { GatewayJSON, TextBytes("{"), NoBytes } :
                   gw = [NoGateway EXCEPT !.pc = "client", !.entry = "http",
                                          !.deploy = deploy, !.method = method,
                                          !.reqData = data]
          \/ \E code \in GatewayCodes, confirmable \in BOOLEAN,
                observe \in ObserveOptions, ob \in BOOLEAN :
                \E body \in { BytesToCBOR(GatewayJSON).out, TextBytes("{"), NoBytes } :
                   gw = [NoGateway EXCEPT
                           !.pc = "server", !.entry = "coap", !.deploy = deploy,
                           !.ob = ob,
                           !.coap = [code |-> code,
                                     format |-> IF body = NoBytes THEN "AppOctets"
                                                ELSE "AppCBOR",
                                     confirmable |-> confirmable,
                                     observe |-> observe,
                                     body |-> body]]

\* handler of the client proxy and SendRequest up to conn.Do: nil, and so
\* 502, when the body is not JSON or the method has no code
GatewayClient ==
    /\ gw.pc = "client"
    /\ LET conv == BytesToCBOR(gw.reqData)
           hasBody == gw.reqData # NoBytes
       IN  IF (hasBody /\ ~conv.ok) \/ gw.method \notin DOMAIN methodToCodes
           THEN gw' = [gw EXCEPT !.pc = "done", !.result = ProxyFailure]
           ELSE gw' = [gw EXCEPT
                         !.pc = "server",
                         !.coap = [code |-> methodToCodes[gw.method],
                                   format |-> ContentFormat(
                                      IF hasBody THEN "application/cbor" ELSE ""),
                                   confirmable |-> TRUE,
                                   observe |-> "none",
                                   body |-> IF hasBody THEN conv.out ELSE NoBytes]]
    /\ UNCHANGED <<observeVars, pathCall, cborCall, jcw, cli, ack, packageVars>>

\* a call CoAPHTTPHandler makes
HandlerCall(fn, register) == [fn |-> fn, register |-> register]

\* variant: a registration is also passed to the next handler
CoAPHTTPHandlerServingObserve(msg, ob) ==
    IF ~msg.confirmable
    THEN IF ob THEN <<HandlerCall("HandleBlockwise", FALSE)>> ELSE <<>>
    ELSE IF msg.code \notin DOMAIN methodCodes THEN <<>>
    ELSE IF msg.observe # "none"
    THEN IF ob THEN <<HandlerCall("HandleRegistration", msg.observe = "0"),
                      HandlerCall("ServeHTTP", FALSE)>>
         ELSE <<>>
    ELSE <<HandlerCall("ServeHTTP", FALSE)>>

\* CoAPHTTPHandler: the handlers the message is passed to
CoAPHTTPHandler(msg, ob) ==
    IF ~msg.confirmable
    THEN IF ob THEN <<HandlerCall("HandleBlockwise", FALSE)>> ELSE <<>>
    ELSE IF msg.code \notin DOMAIN methodCodes
    THEN \* failed to map coap request to http, ignoring
         <<>>
    ELSE IF msg.observe # "none"
    THEN IF ob THEN <<HandlerCall("HandleRegistration", msg.observe = "0")>>
         ELSE <<>>
    ELSE <<HandlerCall("ServeHTTP", FALSE)>>

\* CoAPHTTPHandler and CoAPToHTTPRequest, then forwardToLocalAddr of the
\* proxy or CBORToJSONHandler of the library, up to the call of the origin;
\* of a registration only the call and its response are kept here
GatewayServer ==
    /\ gw.pc = "server"
    /\ LET conv == BytesToJSON(gw.coap.body)
           isCBOR == ContentType(gw.coap.format) = "application/cbor"
           calls == CoAPHTTPHandler(gw.coap, gw.ob)
           called == [gw EXCEPT !.calls = calls]
           fns == { calls[i].fn : i \in DOMAIN calls }
       IN  IF "ServeHTTP" \notin fns
           THEN IF "HandleRegistration" \in fns
                THEN gw' = [called EXCEPT
                              !.pc = "reply",
                              !.resp = [code |-> IF calls[1].register
                                                 THEN "Content" ELSE "Deleted",
                                        body |-> NoBytes]]
                ELSE gw' = [called EXCEPT !.pc = "reply"]
           ELSE IF isCBOR /\ ~conv.ok /\ gw.deploy = "proxy"
           THEN gw' = [called EXCEPT
                         !.pc = "reply",
                         !.wrote = Append(@, 500),
                         !.resp = SetResponse(500,
                                     TextBytes("Failed to convert CBOR to JSON"))]
           ELSE gw' = [called EXCEPT
                         !.pc = "origin",
                         !.upstream =
                            Append(@, [method |-> methodCodes[gw.coap.code],
                                       body |-> IF isCBOR THEN conv.out
                                                ELSE gw.coap.body])]
    /\ UNCHANGED <<observeVars, pathCall, cborCall, jcw, cli, ack, packageVars>>

\* the origin answers; writeResponse of the proxy, or jsonToCBORWriter of
\* the library, hands the answer to the CoAP writer
GatewayOrigin ==
    /\ gw.pc = "origin"
    /\ \E status \in OriginStatuses :
          \E body \in OriginBodies :
             LET conv == BytesToCBOR(body)
                 answered == [gw EXCEPT !.pc = "reply",
                                        !.origin = [status |-> status, body |-> body]]
             IN  IF gw.deploy = "proxy"
                 THEN IF body = NoBytes
                      THEN gw' = [answered EXCEPT
                                    !.wrote = Append(@, status),
                                    !.resp = SetResponse(status, NoBytes)]
                      ELSE IF ~conv.ok
                      THEN gw' = [answered EXCEPT
                                    !.wrote = Append(@, 502),
                                    !.resp = SetResponse(502,
                                       TextBytes("Failed to convert response body"))]
                      ELSE gw' = [answered EXCEPT
                                    !.wrote = Append(@, status),
                                    !.resp = SetResponse(status, conv.out)]
                 ELSE IF ~conv.ok
                      THEN gw' = [answered EXCEPT !.wrote = Append(@, status)]
                      ELSE gw' = [answered EXCEPT
                                    !.wrote = Append(@, status),
                                    !.resp = SetResponse(status, conv.out)]
    /\ UNCHANGED <<observeVars, pathCall, cborCall, jcw, cli, ack, packageVars>>

\* the rest of SendRequest and of the handler of the client proxy: nil, and
\* so 502, when no response came, when its code has no status, or when its
\* body is not CBOR
GatewayReply ==
    /\ gw.pc = "reply"
    /\ LET conv == BytesToJSON(gw.resp.body) IN
       IF gw.entry = "coap" THEN gw' = [gw EXCEPT !.pc = "done"]
       ELSE IF gw.resp = NoResp
               \/ gw.resp.code \notin DOMAIN responseCodes
               \/ ~conv.ok
       THEN gw' = [gw EXCEPT !.pc = "done", !.result = ProxyFailure]
       ELSE gw' = [gw EXCEPT
                     !.pc = "done",
                     !.result = [status |-> responseCodes[gw.resp.code],
                                 body |-> conv.out]]
    /\ UNCHANGED <<observeVars, pathCall, cborCall, jcw, cli, ack, packageVars>>

NextGateway == GatewayClient \/ GatewayServer \/ GatewayOrigin \/ GatewayReply

SpecGateway == InitGateway /\ [][NextGateway]_vars

\* the codes the statuses are to be answered with
ListedCodes ==
    [s \in {200, 400, 401, 403, 404, 405, 413, 415, 500, 502, 504} |->
        CASE s = 200 -> "Content"
          [] s = 400 -> "BadRequest"
          [] s = 401 -> "Unauthorized"
          [] s = 403 -> "Forbidden"
          [] s = 404 -> "NotFound"
          [] s = 405 -> "MethodNotAllowed"
          [] s = 413 -> "RequestEntityTooLarge"
          [] s = 415 -> "UnsupportedMediaType"
          [] s = 500 -> "InternalServerError"
          [] s = 502 -> "BadGateway"
          [] s = 504 -> "GatewayTimeout"]

\* the status the CoAP writer of the gateway was last given
LastWrote == gw.wrote[Len(gw.wrote)]

\* C22: a response the gateway writes with one of the statuses 200, 400,
\* 401, 403, 404, 405, 413, 415, 500, 502, 504 carries the code listed for
\* it (2.05, 4.00, 4.01, 4.03, 4.04, 4.05, 4.13, 4.15, 5.00, 5.02, 5.04),
\* the table of codes has as many entries as the table of statuses, and
\* the code mapped back is the status again.
C22_StatusTableAndInverse ==
    /\ Cardinality(DOMAIN responseCodes) = Cardinality(DOMAIN statusCodes)
    /\ (gw.wrote # <<>> /\ gw.resp # NoResp /\ LastWrote \in DOMAIN ListedCodes)
          => /\ gw.resp.code = ListedCodes[LastWrote]
             /\ gw.resp.code \in DOMAIN responseCodes
             /\ responseCodes[gw.resp.code] = LastWrote

\* a status of the table was written and came back as itself
C22_Witness ==
    /\ gw.pc = "done"
    /\ gw.entry = "http"
    /\ gw.wrote = <<404>>
    /\ gw.resp.code = "NotFound"
    /\ gw.result.status = 404

\* the gateway wrote 415
C22_Witness415 ==
    /\ gw.wrote = <<415>>
    /\ gw.resp # NoResp

\* the body the caller got is the body the origin sent: JSON of equal
\* content, or nothing for nothing
SameBody(got, sent) ==
    \/ got = sent
    \/ /\ got.form = "json"
       /\ sent.form = "json"
       /\ CanonicalForm(got.val) = CanonicalForm(sent.val)

\* C23: when the origin answered with a status outside 200..299 and a JSON
\* body, the HTTP caller of the client proxy gets that status and that
\* body, and the origin was sent the request once.
C23_Non2xxForwardedVerbatim ==
    (gw.pc = "done" /\ gw.entry = "http" /\ gw.upstream # <<>>
       /\ ~(gw.origin.status \in 200..299)
       /\ gw.origin.body.form = "json")
      => /\ gw.result.status = gw.origin.status
         /\ SameBody(gw.result.body, gw.origin.body)
         /\ Len(gw.upstream) = 1

\* a 404 of the origin with a JSON body reached the caller
C23_Witness ==
    /\ gw.pc = "done"
    /\ gw.entry = "http"
    /\ gw.origin.status = 404
    /\ gw.origin.body = GatewayJSON
    /\ gw.result.status = 404
    /\ gw.result.body.form = "json"
    /\ SameBody(gw.result.body, gw.origin.body)

\* a 429 of the origin with a JSON body reached the caller as 502
C23_Witness429 ==
    /\ gw.pc = "done"
    /\ gw.origin.status = 429
    /\ gw.origin.body = GatewayJSON
    /\ gw.deploy = "proxy"
    /\ gw.result = ProxyFailure

\* the request reached the HTTP side of the gateway with a body announced
\* as CBOR that is not CBOR
MalformedRequest ==
    /\ gw.pc \in {"origin", "reply", "done"}
    /\ gw.coap.confirmable
    /\ gw.coap.observe = "none"
    /\ gw.coap.code \in DOMAIN methodCodes
    /\ ContentType(gw.coap.format) = "application/cbor"
    /\ ~BytesToJSON(gw.coap.body).ok

\* the origin answered with a body that is not JSON
UnconvertibleResponse ==
    /\ gw.pc \in {"reply", "done"}
    /\ gw.upstream # <<>>
    /\ gw.origin.body # NoBytes
    /\ ~BytesToCBOR(gw.origin.body).ok

\* C24: a request whose body is malformed CBOR is answered by the gateway
\* with 502 and is not sent to the origin; a response of the origin whose
\* body cannot be converted to CBOR is answered with 502; no other status
\* is written in either case.
C24_TranscodingFailureIs502 ==
    /\ MalformedRequest
         => /\ gw.upstream = <<>>
            /\ gw.pc \in {"reply", "done"} => gw.wrote = <<502>>
    /\ UnconvertibleResponse
         => /\ gw.wrote = <<502>>
            /\ gw.resp.code = "BadGateway"

\* the proxy answered an origin body that is not JSON with 502
C24_Witness ==
    /\ UnconvertibleResponse
    /\ gw.deploy = "proxy"
    /\ gw.wrote = <<502>>
    /\ gw.resp.code = "BadGateway"

\* the proxy answered a malformed request with 500
C24_Witness500 ==
    /\ MalformedRequest
    /\ gw.deploy = "proxy"
    /\ gw.upstream = <<>>
    /\ gw.wrote = <<500>>

\* the library handler sent a malformed request on with an empty body
C24_WitnessForwarded ==
    /\ MalformedRequest
    /\ gw.deploy = "handler"
    /\ Len(gw.upstream) = 1
    /\ gw.upstream[1].body = NoBytes

\* C25: a request whose HTTP method has no CoAP code, whose CoAP code has
\* no HTTP method, whose response is written with a status that has no
\* CoAP code, or whose response arrives with a code that has no status, is
\* answered, and the answer has status 500.
C25_MappingFailureIs500 ==
    gw.pc = "done" =>
      /\ (gw.entry = "http" /\ gw.method \notin DOMAIN methodToCodes)
            => gw.result.status = 500
      /\ (gw.entry = "coap" /\ gw.coap.confirmable
            /\ gw.coap.code \notin DOMAIN methodCodes)
            => gw.resp.code = "InternalServerError"
      /\ (gw.wrote # <<>> /\ gw.resp # NoResp
            /\ LastWrote \notin DOMAIN statusCodes)
            => gw.resp.code = "InternalServerError"
      /\ (gw.entry = "http" /\ gw.resp # NoResp
            /\ gw.resp.code \notin DOMAIN responseCodes)
            => gw.result.status = 500

\* a CoAP request with a code that has no method got no response
C25_WitnessIgnored ==
    /\ gw.pc = "done"
    /\ gw.entry = "coap"
    /\ gw.coap.confirmable
    /\ gw.coap.code \notin DOMAIN methodCodes
    /\ gw.resp = NoResp
    /\ gw.upstream = <<>>

\* an HTTP request with a method that has no code got 502
C25_WitnessMethod ==
    /\ gw.pc = "done"
    /\ gw.entry = "http"
    /\ gw.method \notin DOMAIN methodToCodes
    /\ gw.result = ProxyFailure
    /\ gw.upstream = <<>>

(***************************************************************************)
(* The mobile client: SendRequest, the cache of sessions, the access token *)
(* a session has been sent, and the channel of /sync notifications.        *)
(***************************************************************************)
\* ObserveBufferSize of the connection parameters
ObserveBufferSize == 2

MaxCalls == 3

MaxNotifications == 3

ClientMethods == { "GET", "PATCH" }

ClientPaths == { "/_matrix/client/r0/sync", "/_matrix/client/r0/joined_rooms" }

ClientTokens == { "t1", "t2" }

ClientSinces == { "", "s1" }

\* the bodies of a request: none and a JSON object
ClientBodies == { "", "{}" }

\* the requests of callers: /sync is a GET with a since parameter, the
\* other requests have a method, perhaps a body, and no such parameter
ClientRequests ==
    { r \in [method : ClientMethods, path : ClientPaths, token : ClientTokens,
             body : ClientBodies, since : ClientSinces] :
        IF r.path = "/_matrix/client/r0/sync"
        THEN r.method = "GET" /\ r.body = ""
        ELSE r.since = "" }

\* variant: every failure counts as a closed session
isConnClosedAlways(conns) == TRUE

\* dtlsClients.isConnClosed
isConnClosed(conns) == conns = 0

\* the Response of a CoAP response or of a notification
RealResponse(n) ==
    [kind |-> "real", code |-> 200, n |-> n, next_batch |-> "", empty |-> FALSE]

\* variant: a stub /sync response that does not take up the since parameter
StubResponseNoSince(since) ==
    [kind |-> "stub", code |-> 200, n |-> 0, next_batch |-> "", empty |-> TRUE]

\* the stub /sync response
StubResponse(since) ==
    [kind |-> "stub", code |-> 200, n |-> 0, next_batch |-> since, empty |-> TRUE]

NilResponse == [NoResult EXCEPT !.kind = "nil"]

\* the CoAP message HTTPRequestToCoAP or conn.Observe sends on session s;
\* before is the token the session had been sent when the call began
Message(c, s, before, opt, observing) ==
    [sess |-> s, method |-> c.req.method, path |-> c.req.path,
     body |-> IF observing THEN "" ELSE c.req.body,
     token |-> c.req.token, before |-> before, opt |-> opt,
     observing |-> observing]

\* getClientForHost: the cached session, or a new one in the cache
Dialed(c) ==
    IF c.conns # 0 THEN c
    ELSE [c EXCEPT !.dialed = @ + 1, !.conns = c.dialed + 1,
                   !.sess[c.dialed + 1] = [NewSession EXCEPT !.open = TRUE]]

\* SendRequest returns
Responded(c, result) == [c EXCEPT !.pc = "idle", !.result = result]

InitClient ==
    /\ NewObservations
    /\ pathCall = NoCall
    /\ cborCall = NoCall
    /\ jcw = NoWriter
    /\ gw = NoGateway
    /\ ack = NoAcks
    /\ PackageIdle
    /\ \E enabled \in BOOLEAN : cli = [NoClient EXCEPT !.observeEnabled = enabled]

\* SendRequest up to the first conn.Do, or through observe up to the select
SendRequest(method, path, token, body, since) ==
    /\ cli.pc = "idle"
    /\ cli.calls < MaxCalls
    /\ \E dialOK \in BOOLEAN, observeOK \in BOOLEAN :
          LET begun == [cli EXCEPT
                          !.calls = @ + 1, !.sends = <<>>, !.err = FALSE,
                          !.fails = 0, !.result = NoResult, !.conn = 0,
                          !.req = [method |-> method, path |-> path,
                                   token |-> token, body |-> body,
                                   since |-> since]]
              c == Dialed(begun)
              s == c.conns
              before == c.sess[s].sent
              opt == before = "nil" \/ before # token
              tok == [c EXCEPT !.conn = s,
                               !.sess[s].sent = IF opt THEN token ELSE @]
          IN  IF cli.conns = 0 /\ (~dialOK \/ cli.dialed = MaxSessions)
              THEN cli' = Responded(begun, NilResponse)
              ELSE IF cli.observeEnabled /\ path = "/_matrix/client/r0/sync"
              THEN IF tok.sess[s].hasCh
                   THEN cli' = [tok EXCEPT !.pc = "select"]
                   ELSE LET msg == Message(tok, s, before, TRUE, TRUE)
                            made == [tok EXCEPT !.sess[s].hasCh = TRUE,
                                                !.sends = Append(@, msg)]
                        IN  IF observeOK
                            THEN cli' = [made EXCEPT !.pc = "select",
                                                     !.sess[s].registered = TRUE]
                            ELSE cli' = Responded(made, NilResponse)
              ELSE IF method \in DOMAIN methodToCodes
                   THEN cli' = [tok EXCEPT
                                  !.pc = "sent1",
                                  !.sends = Append(@, Message(tok, s, before, opt, FALSE))]
                   ELSE cli' = [tok EXCEPT !.pc = "sent1", !.err = TRUE]
    /\ UNCHANGED <<observeVars, pathCall, cborCall, jcw, gw, ack, packageVars>>

\* the first conn.Do returns: the response, or on an error the second
\* HTTPRequestToCoAP on a new session when the host has none in the cache
FirstResult ==
    /\ cli.pc = "sent1"
    /\ \E failed \in BOOLEAN, mapped \in BOOLEAN, dialOK \in BOOLEAN :
          /\ (cli.err \/ ~cli.sess[cli.conn].open) => failed
          /\ IF ~failed
             THEN cli' = Responded(cli, IF mapped THEN RealResponse(0) ELSE NilResponse)
             ELSE IF ~isConnClosed(cli.conns)
             THEN cli' = Responded([cli EXCEPT !.fails = 1], NilResponse)
             ELSE IF ~dialOK \/ cli.dialed = MaxSessions
             THEN cli' = Responded([cli EXCEPT !.fails = 1], NilResponse)
             ELSE LET c == Dialed([cli EXCEPT !.fails = 1])
                      s == c.conns
                      tok == [c EXCEPT !.conn = s, !.sess[s].sent = cli.req.token]
                  IN  IF cli.req.method \in DOMAIN methodToCodes
                      THEN cli' = [tok EXCEPT
                                     !.pc = "sent2",
                                     !.sends = Append(@, Message(tok, s, "nil", TRUE, FALSE))]
                      ELSE cli' = Responded([tok EXCEPT !.fails = 2], NilResponse)
    /\ UNCHANGED <<observeVars, pathCall, cborCall, jcw, gw, ack, packageVars>>

\* the second conn.Do returns
SecondResult ==
    /\ cli.pc = "sent2"
    /\ \E failed \in BOOLEAN, mapped \in BOOLEAN :
          /\ ~cli.sess[cli.conn].open => failed
          /\ cli' = Responded([cli EXCEPT !.fails = IF failed THEN 2 ELSE @],
                               IF ~failed /\ mapped THEN RealResponse(0)
                               ELSE NilResponse)
    /\ UNCHANGED <<observeVars, pathCall, cborCall, jcw, gw, ack, packageVars>>

\* select: a notification is received from the channel; the value of a
\* callback blocked in its send moves into the buffer
SelectReceive ==
    /\ cli.pc = "select"
    /\ cli.sess[cli.conn].buf # <<>>
    /\ LET s == cli.conn
           buf == cli.sess[s].buf
           rest == IF cli.sess[s].pending # 0
                   THEN Append(Tail(buf), cli.sess[s].pending)
                   ELSE Tail(buf)
       IN  cli' = Responded([cli EXCEPT !.sess[s].buf = rest,
                                       !.sess[s].pending = 0,
                                       !.sess[s].handed = Append(@, Head(buf))],
                           RealResponse(Head(buf)))
    /\ UNCHANGED <<observeVars, pathCall, cborCall, jcw, gw, ack, packageVars>>

\* select: the timer of ObserveNoResponseTimeoutSecs fires on an empty
\* channel
SelectTimeout ==
    /\ cli.pc = "select"
    /\ cli.sess[cli.conn].buf = <<>>
    /\ cli' = Responded(cli, StubResponse(cli.req.since))
    /\ UNCHANGED <<observeVars, pathCall, cborCall, jcw, gw, ack, packageVars>>

\* variant: a notification that finds the buffer full is discarded
NotifyDropping(s, valid) ==
    /\ cli.sess[s].open
    /\ cli.sess[s].registered
    /\ cli.pushed < MaxNotifications
    /\ LET n == cli.pushed + 1 IN
       IF ~valid
       THEN cli' = [cli EXCEPT !.pushed = n]
       ELSE IF Len(cli.sess[s].buf) < ObserveBufferSize
       THEN cli' = [cli EXCEPT !.pushed = n,
                               !.sess[s].buf = Append(@, n),
                               !.sess[s].arrived = Append(@, n)]
       ELSE cli' = [cli EXCEPT !.pushed = n,
                               !.sess[s].arrived = Append(@, n)]
    /\ UNCHANGED <<observeVars, pathCall, cborCall, jcw, gw, ack, packageVars>>

\* the callback of conn.Observe gets a notification: skipped when it has
\* no status, no body or no CBOR, else sent to the channel, which blocks
\* when the buffer is full
Notify(s, valid) ==
    /\ cli.sess[s].open
    /\ cli.sess[s].registered
    /\ cli.sess[s].pending = 0
    /\ cli.pushed < MaxNotifications
    /\ LET n == cli.pushed + 1 IN
       IF ~valid
       THEN cli' = [cli EXCEPT !.pushed = n]
       ELSE IF Len(cli.sess[s].buf) < ObserveBufferSize
       THEN cli' = [cli EXCEPT !.pushed = n,
                               !.sess[s].buf = Append(@, n),
                               !.sess[s].arrived = Append(@, n)]
       ELSE cli' = [cli EXCEPT !.pushed = n,
                               !.sess[s].pending = n,
                               !.sess[s].arrived = Append(@, n)]
    /\ UNCHANGED <<observeVars, pathCall, cborCall, jcw, gw, ack, packageVars>>

\* the session closes; the callback of AddOnClose deletes the cache entry
CloseSession(s) ==
    /\ cli.sess[s].open
    /\ cli' = [cli EXCEPT !.sess[s].open = FALSE,
                          !.sess[s].registered = FALSE,
                          !.conns = 0]
    /\ UNCHANGED <<observeVars, pathCall, cborCall, jcw, gw, ack, packageVars>>

NextClient ==
    \/ \E r \in ClientRequests :
          SendRequest(r.method, r.path, r.token, r.body, r.since)
    \/ FirstResult
    \/ SecondResult
    \/ SelectReceive
    \/ SelectTimeout
    \/ \E s \in 1..MaxSessions, valid \in BOOLEAN : Notify(s, valid)
    \/ \E s \in 1..MaxSessions : CloseSession(s)

SpecClient == InitClient /\ [][NextClient]_vars

\* the second message of a call repeats the first on another session and
\* carries the access token
IsRetryOf(second, first) ==
    /\ second.sess # first.sess
    /\ second.method = first.method
    /\ second.path = first.path
    /\ second.body = first.body
    /\ second.token = first.token
    /\ second.opt

\* C26: a SendRequest call transmits at most two messages; the second is
\* sent only after the first failed while the host has no session in the
\* cache, on a session established for it, with the method, path, body and
\* token of the first and with the access-token option; a call whose
\* second transmission failed, or whose first failed without a second,
\* returns nil.
C26_RetryOnceOnClosedSession ==
    /\ [](/\ Len(cli.sends) <= 2
          /\ Len(cli.sends) = 2
                => /\ IsRetryOf(cli.sends[2], cli.sends[1])
                   /\ cli.fails >= 1
          /\ (cli.pc = "idle" /\ cli.fails = 2) => cli.result = NilResponse
          /\ (cli.pc = "idle" /\ cli.fails = 1 /\ Len(cli.sends) < 2)
                => cli.result = NilResponse)
    /\ [][(Len(cli'.sends) = 2 /\ Len(cli.sends) = 1)
            => /\ cli.pc = "sent1"
               /\ cli.conns = 0
               /\ ~cli.sess[cli.conn].open
               /\ cli'.sends[2].sess = cli.dialed + 1
               /\ cli'.conns = cli.dialed + 1
               /\ cli'.sess[cli.dialed + 1].open]_vars

\* a call sent its request a second time on a new session and got a
\* response
C26_Witness ==
    /\ cli.pc = "idle"
    /\ Len(cli.sends) = 2
    /\ cli.sends[1].sess = 1
    /\ cli.sends[2].sess = 2
    /\ ~cli.sends[1].opt
    /\ cli.sends[2].opt
    /\ cli.sends[1].body = "{}"
    /\ cli.result = RealResponse(0)

\* a call whose second transmission failed returned nil
C26_WitnessSecondFailed ==
    /\ cli.pc = "idle"
    /\ Len(cli.sends) = 2
    /\ cli.fails = 2
    /\ cli.result = NilResponse

\* C27: every message a SendRequest call transmits carries the access-token
\* option exactly when the token of the request differs from the token the
\* session had been sent before the call, or the session had been sent
\* none; and after a call that got a session the token recorded for that
\* session is the token of the request.
C27_OptionIffTokenDiffers ==
    /\ \A i \in DOMAIN cli.sends :
          cli.sends[i].opt <=> (\/ cli.sends[i].before = "nil"
                                \/ cli.sends[i].before # cli.sends[i].token)
    /\ (cli.pc = "idle" /\ cli.conn # 0)
          => cli.sess[cli.conn].sent = cli.req.token

\* a request with the token the session was sent before went out without
\* the option
C27_Witness ==
    /\ cli.pc = "idle"
    /\ Len(cli.sends) = 1
    /\ ~cli.sends[1].observing
    /\ cli.sends[1].before = "t1"
    /\ cli.sends[1].token = "t1"
    /\ ~cli.sends[1].opt
    /\ cli.sess[cli.conn].sent = "t1"

\* the registration for /sync carried the token the session was sent before
C27_WitnessObserve ==
    /\ Len(cli.sends) = 1
    /\ cli.sends[1].observing
    /\ cli.sends[1].before = "t1"
    /\ cli.sends[1].token = "t1"
    /\ cli.sends[1].opt

\* the notifications of session s that are in the channel or held by the
\* blocked callback, oldest first
Waiting(s) ==
    IF cli.sess[s].pending # 0
    THEN Append(cli.sess[s].buf, cli.sess[s].pending)
    ELSE cli.sess[s].buf

\* C28: a channel never buffers more than ObserveBufferSize notifications;
\* the callback holds a notification only while the buffer is full, and
\* only SendRequest taking an entry releases it; the notifications the
\* callback sent are, in the order of their arrival, those handed to
\* callers followed by those still waiting.
C28_BoundedBlockingFIFO ==
    /\ [](\A s \in 1..MaxSessions :
            /\ Len(cli.sess[s].buf) <= ObserveBufferSize
            /\ cli.sess[s].pending # 0 => Len(cli.sess[s].buf) = ObserveBufferSize
            /\ cli.sess[s].handed \o Waiting(s) = cli.sess[s].arrived)
    /\ [][\A s \in 1..MaxSessions :
            (cli.sess[s].pending # 0 /\ cli'.sess[s].pending = 0)
               => /\ cli.pc = "select"
                  /\ cli'.result = RealResponse(Head(cli.sess[s].buf))
                  /\ cli'.sess[s].handed = Append(cli.sess[s].handed,
                                                  Head(cli.sess[s].buf))
                  /\ cli'.sess[s].buf = Append(Tail(cli.sess[s].buf),
                                               cli.sess[s].pending)]_vars

\* the callback was blocked on a full buffer; a call took the oldest
\* notification and the held one moved into the buffer
C28_Witness ==
    \E s \in 1..MaxSessions :
       /\ Len(cli.sess[s].arrived) = ObserveBufferSize + 1
       /\ Len(cli.sess[s].handed) = 1
       /\ cli.sess[s].handed[1] = cli.sess[s].arrived[1]
       /\ Len(cli.sess[s].buf) = ObserveBufferSize
       /\ cli.sess[s].pending = 0
       /\ cli.result = RealResponse(cli.sess[s].arrived[1])

\* the callback is blocked on a full buffer
C28_WitnessBlocked ==
    \E s \in 1..MaxSessions :
       /\ cli.sess[s].pending # 0
       /\ Len(cli.sess[s].buf) = ObserveBufferSize

\* the call is a /sync request with OBSERVE enabled
IsObserveCall ==
    /\ cli.observeEnabled
    /\ cli.req.path = "/_matrix/client/r0/sync"

\* C29 as stated: a /sync call with OBSERVE enabled returns the oldest
\* buffered notification, or else the stub response with next_batch equal
\* to the since parameter and empty collections.
C29_NotificationOrStub ==
    (IsObserveCall /\ cli.calls > 0 /\ cli.pc = "idle")
       => \/ cli.result.kind = "real" /\ cli.result.n # 0
          \/ cli.result = StubResponse(cli.req.since)

\* C29: a /sync call with OBSERVE enabled that got a session and whose
\* registration did not fail returns the oldest notification of the
\* channel when there is one, and else the stub response with next_batch
\* equal to the since parameter and empty collections, which takes nothing
\* from the channel; a call without a session, or whose registration
\* failed, returns nil.
C29_NotificationOrStubOrNil ==
    /\ []((IsObserveCall /\ cli.calls > 0 /\ cli.pc = "idle")
            => \/ cli.result.kind = "real" /\ cli.result.n # 0
               \/ cli.result = StubResponse(cli.req.since)
               \/ /\ cli.result = NilResponse
                  /\ \/ cli.conn = 0
                     \/ /\ Len(cli.sends) = 1
                        /\ cli.sends[1].observing
                        /\ ~cli.sess[cli.conn].registered)
    /\ [][(cli.pc = "select" /\ cli'.pc = "idle")
            => LET s == cli.conn IN
               IF cli.sess[s].buf # <<>>
               THEN /\ cli'.result = RealResponse(Head(cli.sess[s].buf))
                    /\ cli'.sess[s].buf = Tail(Waiting(s))
               ELSE /\ cli'.result = StubResponse(cli.req.since)
                    /\ cli'.result.next_batch = cli.req.since
                    /\ cli'.result.code = 200
                    /\ cli'.result.empty
                    /\ cli'.sess = cli.sess]_vars

\* a /sync call with since = s1 found the channel empty and returned the
\* stub; an earlier call had returned a notification
C29_Witness ==
    /\ IsObserveCall
    /\ cli.pc = "idle"
    /\ cli.req.since = "s1"
    /\ cli.result = StubResponse("s1")
    /\ cli.sess[cli.conn].handed # <<>>
    /\ cli.sess[cli.conn].buf = <<>>

\* a /sync call whose registration failed returned nil
C29_WitnessNil ==
    /\ IsObserveCall
    /\ cli.pc = "idle"
    /\ cli.conn # 0
    /\ cli.result = NilResponse

(***************************************************************************)
(* The DTLS server of the proxy: for each request a timer that writes an   *)
(* empty ACK when ServeCOAP has not been marked as processed.              *)
(***************************************************************************)
InitAck ==
    /\ NewObservations
    /\ pathCall = NoCall
    /\ cborCall = NoCall
    /\ jcw = NoWriter
    /\ gw = NoGateway
    /\ cli = NoClient
    /\ ack = NoAcks
    /\ PackageIdle

\* the handler function starts: the timer is armed, ServeCOAP is called
ReceiveRequest(r) ==
    /\ ack[r].handler = "none"
    /\ ack' = [ack EXCEPT ![r].handler = "serving", ![r].timer = "armed"]
    /\ UNCHANGED <<observeVars, pathCall, cborCall, jcw, gw, cli, packageVars>>

\* handler.ServeCOAP returns
ServeCOAPReturns(r) ==
    /\ ack[r].handler = "serving"
    /\ ack' = [ack EXCEPT ![r].handler = "returned"]
    /\ UNCHANGED <<observeVars, pathCall, cborCall, jcw, gw, cli, packageVars>>

\* atomic.StoreInt32(&processed, 1)
StoreProcessed(r) ==
    /\ ack[r].handler = "returned"
    /\ ack' = [ack EXCEPT ![r].handler = "stored", ![r].processed = 1]
    /\ UNCHANGED <<observeVars, pathCall, cborCall, jcw, gw, cli, packageVars>>

\* timer.Stop(): a timer that has fired is left alone
TimerStop(r) ==
    /\ ack[r].handler = "stored"
    /\ ack' = [ack EXCEPT ![r].handler = "done",
                          ![r].timer = IF @ = "armed" THEN "stopped" ELSE @]
    /\ UNCHANGED <<observeVars, pathCall, cborCall, jcw, gw, cli, packageVars>>

\* waitACK has passed: the callback of the timer starts
TimerFires(r) ==
    /\ ack[r].timer = "armed"
    /\ ack' = [ack EXCEPT ![r].timer = "fired",
                          ![r].runningAtFire = ack[r].handler = "serving"]
    /\ UNCHANGED <<observeVars, pathCall, cborCall, jcw, gw, cli, packageVars>>

\* wasProcessed := atomic.LoadInt32(&processed)
LoadProcessed(r) ==
    /\ ack[r].timer = "fired"
    /\ ack' = [ack EXCEPT ![r].timer = "loaded",
                          ![r].wasProcessed = ack[r].processed]
    /\ UNCHANGED <<observeVars, pathCall, cborCall, jcw, gw, cli, packageVars>>

\* the rest of the callback: the empty ACK is written when wasProcessed is 0
WriteACK(r) ==
    /\ ack[r].timer = "loaded"
    /\ ack' = [ack EXCEPT ![r].timer = "finished",
                          ![r].acks = IF ack[r].wasProcessed = 0 THEN @ + 1 ELSE @]
    /\ UNCHANGED <<observeVars, pathCall, cborCall, jcw, gw, cli, packageVars>>

NextAck ==
    \E r \in 1..MaxAckRequests :
       \/ ReceiveRequest(r)
       \/ ServeCOAPReturns(r)
       \/ StoreProcessed(r)
       \/ TimerStop(r)
       \/ TimerFires(r)
       \/ LoadProcessed(r)
       \/ WriteACK(r)

SpecAck == InitAck /\ [][NextAck]_vars

\* C30: a request gets an empty ACK of its own only if ServeCOAP had not
\* returned when its timer fired, and it gets at most one.
C30_AckOnlyWhileHandlerRuns ==
    \A r \in 1..MaxAckRequests :
       /\ ack[r].acks <= 1
       /\ ack[r].acks = 1 => ack[r].runningAtFire

\* the timer fired while ServeCOAP was running and the ACK was written
C30_Witness ==
    \E r \in 1..MaxAckRequests :
       /\ ack[r].acks = 1
       /\ ack[r].runningAtFire
       /\ ack[r].timer = "finished"

\* the timer fired after ServeCOAP had returned and the ACK was written
C30_WitnessAfterReturn ==
    \E r \in 1..MaxAckRequests :
       /\ ack[r].acks = 1
       /\ ~ack[r].runningAtFire
       /\ ack[r].handler = "done"

(***************************************************************************)
(* Properties of the goroutines of a registration ID.                      *)
(***************************************************************************)
\* the goroutines of regID that have not returned from longPoll
RunningFor(regID) ==
    { w \in WorkerIDs :
        /\ workers[w].regID = regID
        /\ workers[w].pc \in {"head", "poll", "send", "sendErr", "write",
                              "writeErr", "check"} }

\* C31: at every moment at most one long-poll goroutine is running for a
\* registration ID, also after a deregister request followed by a register
\* request for the same ID while the first goroutine waits for the upstream
\* handler.
C31_OneWorkerPerRegistration ==
    \A regID \in RegIDs : Cardinality(RunningFor(regID)) <= 1

\* the goroutine of a deregistered registration and the goroutine of its
\* re-registration both wait for the upstream handler, each after having
\* sent a notification
C31_WitnessTwoPolling ==
    /\ workers[1].regID = workers[2].regID
    /\ workers[1].deregistered
    /\ workers[1].pc = "poll"
    /\ workers[2].pc = "poll"
    /\ workers[1].lastSeq >= 2
    /\ workers[2].lastSeq >= 2
    /\ workers[1].regID \in obs

\* the functions CoAPHTTPHandler passed the message to
CalledFns == [i \in DOMAIN gw.calls |-> gw.calls[i].fn]

\* the message has been through CoAPHTTPHandler
Dispatched == gw.pc \in {"origin", "reply", "done"} /\ gw.coap.code # ""

C32_WitnessIgnored ==
    /\ gw.pc = "done"
    /\ gw.coap.confirmable
    /\ gw.coap.observe = "0"
    /\ gw.coap.code \notin DOMAIN methodCodes
    /\ gw.ob
    /\ gw.calls = <<>>

(***************************************************************************)
(* The default token generator: counter and the package variable count,    *)
(* called by goroutines that convert requests at the same time.  count++   *)
(* is a load and a store with no lock around them, and the value encoded   *)
(* is read from count once more.                                           *)
(***************************************************************************)
\* the calls of counter made before the goroutines start
EarlierCalls == { 0, 126, 16382 }

RECURSIVE PutUvarint(_)
\* binary.PutUvarint: seven bits a byte, low bits first, the high bit set
\* on every byte but the last
PutUvarint(x) ==
    IF x < 128 THEN <<x>> ELSE <<(x % 128) + 128>> \o PutUvarint(x \div 128)

InitTokens ==
    /\ NewObservations
    /\ pathCall = NoCall
    /\ cborCall = NoCall
    /\ jcw = NoWriter
    /\ gw = NoGateway
    /\ cli = NoClient
    /\ ack = NoAcks
    /\ dc = NoDials
    /\ relay = NoRelay
    /\ \E n \in EarlierCalls : ctr = [NoTokens EXCEPT !.count = n]

\* co.NextToken() is called
CallCounter(c) ==
    /\ ctr.g[c].pc = "idle"
    /\ ctr.g[c].calls < MaxTokenCalls
    /\ ctr' = [ctr EXCEPT !.g[c].pc = "load",
                          !.g[c].calls = @ + 1,
                          !.g[c].began = Len(ctr.log)]
    /\ UNCHANGED <<observeVars, pathCall, cborCall, jcw, gw, cli, ack, dc, relay>>

\* count++: the load
LoadCount(c) ==
    /\ ctr.g[c].pc = "load"
    /\ ctr' = [ctr EXCEPT !.g[c].pc = "store", !.g[c].reg = ctr.count]
    /\ UNCHANGED <<observeVars, pathCall, cborCall, jcw, gw, cli, ack, dc, relay>>

\* count++: the store
StoreCount(c) ==
    /\ ctr.g[c].pc = "store"
    /\ ctr' = [ctr EXCEPT !.g[c].pc = "put", !.count = ctr.g[c].reg + 1]
    /\ UNCHANGED <<observeVars, pathCall, cborCall, jcw, gw, cli, ack, dc, relay>>

\* buf[:binary.PutUvarint(buf, uint64(count))] is returned
ReturnToken(c) ==
    /\ ctr.g[c].pc = "put"
    /\ ctr' = [ctr EXCEPT !.g[c].pc = "idle",
                          !.log = Append(@, [g |-> c,
                                             n |-> ctr.count,
                                             token |-> PutUvarint(ctr.count),
                                             began |-> ctr.g[c].began])]
    /\ UNCHANGED <<observeVars, pathCall, cborCall, jcw, gw, cli, ack, dc, relay>>

NextTokens ==
    \E c \in 1..MaxConverters :
       \/ CallCounter(c)
       \/ LoadCount(c)
       \/ StoreCount(c)
       \/ ReturnToken(c)

SpecTokens == InitTokens /\ [][NextTokens]_vars

\* C33: every call of counter returns the varint of an integer greater
\* than the integer of every call that had returned when it was made, and
\* no two calls return the same token, the calls of goroutines that convert
\* at the same time included.
C33_TokensIncreaseAndDiffer ==
    \A i, j \in DOMAIN ctr.log :
       /\ ctr.log[i].token = PutUvarint(ctr.log[i].n)
       /\ i # j => ctr.log[i].token # ctr.log[j].token
       /\ ctr.log[j].began >= i => ctr.log[j].n > ctr.log[i].n

\* two goroutines were given the same two-byte token
C33_WitnessSameToken ==
    \E i, j \in DOMAIN ctr.log :
       /\ ctr.log[i].g # ctr.log[j].g
       /\ ctr.log[i].token = ctr.log[j].token
       /\ Len(ctr.log[i].token) = 2

\* a call made after another had returned was given the same token
C33_WitnessLaterCallSameToken ==
    \E i, j \in DOMAIN ctr.log :
       /\ ctr.log[j].began >= i
       /\ ctr.log[j].token = ctr.log[i].token

(***************************************************************************)
(* The session cache of the mobile client: dtlsClients, getClientForHost   *)
(* called by several goroutines, sessions that close, and SetParams.       *)
(* c.mu is held from the lookup to the end of the dial; the close callback *)
(* of a session takes it too.  con.Close() in closeAllConns is taken to    *)
(* run the callback of an open session before it returns.                  *)
(***************************************************************************)
InitDials ==
    /\ NewObservations
    /\ pathCall = NoCall
    /\ cborCall = NoCall
    /\ jcw = NoWriter
    /\ gw = NoGateway
    /\ cli = NoClient
    /\ ack = NoAcks
    /\ ctr = NoTokens
    /\ dc = NoDials
    /\ relay = NoRelay

\* variant: a lookup that never finds the session
CachedNever(host) == 0

\* co, ok := c.conns[host]: the session, 0 when there is none
Cached(host) == dc.conns[host]

\* variant: a callback that leaves the entry in the map
WithoutHostKept(conns, host) == conns

\* delete(c.conns, host)
WithoutHost(conns, host) == [conns EXCEPT ![host] = 0]

\* the calls for the host in progress: goroutine and number of its call
InCallFor(host) ==
    { <<c, dc.g[c].calls>> : c \in
         { d \in 1..MaxGetters : dc.g[d].pc # "idle" /\ dc.g[d].host = host } }

\* getClientForHost is called and waits for c.mu
CallGetClientForHost(c, host) ==
    /\ dc.g[c].pc = "idle"
    /\ dc.g[c].calls < MaxGets
    /\ dc' = [dc EXCEPT !.g[c] = [NoGetter EXCEPT !.pc = "lock",
                                                 !.host = host,
                                                 !.calls = dc.g[c].calls + 1,
                                                 !.with = InCallFor(host)]]
    /\ UNCHANGED <<observeVars, pathCall, cborCall, jcw, gw, cli, ack, ctr, relay>>

\* c.mu.Lock() and the lookup: the cached session is returned, or
\* dtls.Dial is called with c.dtlsConfig while c.mu stays locked
Lookup(c) ==
    /\ dc.g[c].pc = "lock"
    /\ dc.mu = 0
    /\ LET host == dc.g[c].host
           co == Cached(host) IN
       IF co # 0
       THEN dc' = [dc EXCEPT !.g[c].pc = "idle",
                             !.g[c].entry = dc.conns[host],
                             !.g[c].result = co,
                             !.g[c].left = dc.conns[host]]
       ELSE dc' = [dc EXCEPT !.mu = c,
                             !.g[c].pc = "dial",
                             !.g[c].entry = dc.conns[host],
                             !.g[c].dialed = TRUE,
                             !.g[c].cfg = dc.dtlsConfig,
                             !.g[c].since = dc.sp.returned]
    /\ UNCHANGED <<observeVars, pathCall, cborCall, jcw, gw, cli, ack, ctr, relay>>

\* dtls.Dial returns: the session is put in the map when err == nil, and
\* c.mu is unlocked
DialReturns(c, ok) ==
    /\ dc.g[c].pc = "dial"
    /\ ok => Len(dc.sessions) < MaxDials
    /\ LET host == dc.g[c].host
           co == Len(dc.sessions) + 1 IN
       IF ok
       THEN dc' = [dc EXCEPT !.mu = 0,
                             !.sessions = Append(@, [host |-> host,
                                                     cfg |-> dc.g[c].cfg,
                                                     since |-> dc.g[c].since,
                                                     state |-> "open"]),
                             !.conns[host] = co,
                             !.g[c].pc = "idle",
                             !.g[c].result = co,
                             !.g[c].left = co]
       ELSE dc' = [dc EXCEPT !.mu = 0,
                             !.g[c].pc = "idle",
                             !.g[c].err = TRUE,
                             !.g[c].left = dc.conns[host]]
    /\ UNCHANGED <<observeVars, pathCall, cborCall, jcw, gw, cli, ack, ctr, relay>>

\* a session is closed by the peer or by the keep-alive
ConnCloses(co) ==
    /\ co \in DOMAIN dc.sessions
    /\ dc.sessions[co].state = "open"
    /\ dc' = [dc EXCEPT !.sessions[co].state = "closing"]
    /\ UNCHANGED <<observeVars, pathCall, cborCall, jcw, gw, cli, ack, ctr, relay>>

\* the function given to AddOnClose runs
OnClose(co) ==
    /\ co \in DOMAIN dc.sessions
    /\ dc.sessions[co].state = "closing"
    /\ dc.mu = 0
    /\ dc' = [dc EXCEPT !.sessions[co].state = "closed",
                        !.conns = WithoutHost(@, dc.sessions[co].host)]
    /\ UNCHANGED <<observeVars, pathCall, cborCall, jcw, gw, cli, ack, ctr, relay>>

\* SetParams: activeConnectionParams = *cp, and the first lines of
\* closeAllConns: the sessions of the map are copied under c.mu
SetParams ==
    /\ dc.sp.pc = "idle"
    /\ dc.sp.calls < MaxSetParams
    /\ dc.mu = 0
    /\ dc' = [dc EXCEPT !.params = @ + 1,
                        !.sp.pc = "close",
                        !.sp.calls = @ + 1,
                        !.sp.conns = { dc.conns[h] : h \in Hosts } \ {0}]
    /\ UNCHANGED <<observeVars, pathCall, cborCall, jcw, gw, cli, ack, ctr, relay>>

\* closeAllConns: con.Close() for one of the copied sessions; the callback
\* of a session that was open runs, one that had closed is left alone
CloseConn(co) ==
    /\ dc.sp.pc = "close"
    /\ co \in dc.sp.conns
    /\ IF dc.sessions[co].state = "open"
       THEN /\ dc.mu = 0
            /\ dc' = [dc EXCEPT !.sp.conns = @ \ {co},
                                !.sessions[co].state = "closed",
                                !.conns = WithoutHost(@, dc.sessions[co].host)]
       ELSE dc' = [dc EXCEPT !.sp.conns = @ \ {co}]
    /\ UNCHANGED <<observeVars, pathCall, cborCall, jcw, gw, cli, ack, ctr, relay>>

\* closeAllConns: c.dtlsConfig is made from activeConnectionParams, with
\* c.mu not held; SetParams returns
RefreshConfig ==
    /\ dc.sp.pc = "close"
    /\ dc.sp.conns = {}
    /\ dc' = [dc EXCEPT !.dtlsConfig = dc.params,
                        !.sp.pc = "idle",
                        !.sp.returned = @ + 1]
    /\ UNCHANGED <<observeVars, pathCall, cborCall, jcw, gw, cli, ack, ctr, relay>>

NextDials ==
    \/ \E c \in 1..MaxGetters :
          \/ \E host \in Hosts : CallGetClientForHost(c, host)
          \/ Lookup(c)
          \/ \E ok \in BOOLEAN : DialReturns(c, ok)
    \/ \E co \in 1..MaxDials :
          \/ ConnCloses(co)
          \/ OnClose(co)
          \/ CloseConn(co)
    \/ SetParams
    \/ RefreshConfig

SpecDials == InitDials /\ [][NextDials]_vars

\* the goroutine is not in a call and has made one
Got(c) == dc.g[c].pc = "idle" /\ dc.g[c].calls > 0

\* the last calls of the two goroutines were for one host and ran at the
\* same time
Overlapped(c, d) ==
    /\ c # d
    /\ dc.g[c].host = dc.g[d].host
    /\ <<d, dc.g[d].calls>> \in dc.g[c].with

\* every session whose callback has not run is the entry of its host, no
\* session whose callback has run is; a call that found an entry returned
\* it and did not dial, one that found none dialed; what a call returns is
\* the entry it leaves, and after a failed dial there is none
CacheKept ==
    /\ \A co \in DOMAIN dc.sessions :
          dc.sessions[co].state # "closed"
             <=> dc.conns[dc.sessions[co].host] = co
    /\ \A c \in 1..MaxGetters :
          Got(c) =>
             /\ dc.g[c].dialed <=> dc.g[c].entry = 0
             /\ dc.g[c].entry # 0 => dc.g[c].result = dc.g[c].entry
             /\ dc.g[c].left = dc.g[c].result
             /\ dc.g[c].err <=> dc.g[c].result = 0

\* C34 as stated: the cache holds at most one session per host, a cached
\* session is returned without a dial, calls for one host that run at the
\* same time make at most one dial, the callback removes the entry and the
\* next call dials, a failed dial inserts nothing.
C34_OneSessionPerHost ==
    /\ CacheKept
    /\ \A c, d \in 1..MaxGetters :
          Overlapped(c, d) => ~(dc.g[c].dialed /\ dc.g[d].dialed)

\* C34: the cache holds at most one session per host, a cached session is
\* returned without a dial, the callback removes the entry and the next
\* call dials, a failed dial inserts nothing; no two dials run at the same
\* time, and when two calls for one host that ran at the same time both
\* dialed, a dial failed or the session of one had been closed and removed.
C34_OneSessionPerHostOneDialAtATime ==
    /\ CacheKept
    /\ Cardinality({ c \in 1..MaxGetters : dc.g[c].pc = "dial" }) <= 1
    /\ \A c, d \in 1..MaxGetters :
          Overlapped(c, d) /\ Got(c) /\ Got(d)
             /\ dc.g[c].dialed /\ dc.g[d].dialed =>
             \/ dc.g[c].err
             \/ dc.g[d].err
             \/ dc.sessions[dc.g[c].result].state = "closed"
             \/ dc.sessions[dc.g[d].result].state = "closed"

\* goroutine 2 called while goroutine 1 dialed h1 and was given its session
\* without a dial; the session closed, and the next call of goroutine 1 for
\* h1 dialed a new one
C34_Witness ==
    /\ Got(1) /\ Got(2)
    /\ dc.g[2].with = { <<1, 1>> }
    /\ dc.g[2].host = "h1"
    /\ ~dc.g[2].dialed
    /\ dc.g[2].result = 1
    /\ dc.sessions[1].state = "closed"
    /\ dc.g[1].calls = 2
    /\ dc.g[1].host = "h1"
    /\ dc.g[1].dialed
    /\ dc.g[1].result = 2
    /\ dc.conns["h1"] = 2

\* two calls for h1 that ran at the same time both dialed: the first dial
\* failed
C34_WitnessTwoDials ==
    /\ Got(1) /\ Got(2)
    /\ Overlapped(2, 1)
    /\ dc.g[1].dialed /\ dc.g[1].err
    /\ dc.g[2].dialed /\ dc.g[2].result = 1

\* SetParams has been called and has returned
SetParamsReturned == dc.sp.pc = "idle" /\ dc.sp.returned > 0

\* C35: once SetParams has returned, every session of the cache was dialed
\* with the DTLS configuration of the parameters now set, and every session
\* dialed after a call of SetParams returned has the configuration of that
\* call or of a later one, whatever getClientForHost does meanwhile.
C35_NoSessionOfOldParams ==
    /\ SetParamsReturned =>
          \A h \in Hosts :
             dc.conns[h] # 0 => dc.sessions[dc.conns[h]].cfg = dc.params
    /\ \A co \in DOMAIN dc.sessions :
          dc.sessions[co].cfg >= dc.sessions[co].since

\* SetParams has returned and the cache holds an open session for h2 that
\* was dialed with the configuration of the parameters before, while the
\* session of h1 that SetParams found was closed
C35_WitnessOldSession ==
    /\ SetParamsReturned
    /\ dc.params = 1
    /\ dc.dtlsConfig = 1
    /\ dc.conns["h2"] = 2
    /\ dc.sessions[2].cfg = 0
    /\ dc.sessions[2].state = "open"
    /\ dc.sessions[1].host = "h1"
    /\ dc.sessions[1].state = "closed"
    /\ dc.conns["h1"] = 0

\* C36: when a transmission has failed and the registration is kept, the
\* prev body is again the one the failed round polled with; the next poll
\* is made with the query of the failed round, since included; and when the
\* origin answers it with the body whose transmission failed, that body is
\* transmitted again.
C36_FailedUpdateFetchedAgain ==
    [][\A w \in WorkerIDs :
          /\ (FailureDecided(w) /\ workers'[w].pc = "head") =>
                /\ workers'[w].retry
                /\ workers'[w].lastRespBody = workers[w].prevAtPoll
          /\ (workers[w].retry /\ workers[w].pc = "head"
                /\ workers'[w].pc = "poll") =>
                /\ workers'[w].query = workers[w].query
                /\ workers'[w].prevAtPoll = workers[w].prevAtPoll
          /\ (workers[w].retry /\ workers[w].pc = "poll"
                /\ workers'[w].pc # "poll"
                /\ workers'[w].status = StatusOK
                /\ workers'[w].prevResp = workers[w].prevResp) =>
                /\ workers'[w].pc = "send"
                /\ workers'[w].msg.data = workers[w].prevResp
                /\ workers'[w].msg.seq = workers[w].lastSeq + 1]_vars

\* the notification with next_batch s1 failed as number 2 and is written
\* again as number 3, after a poll with the since of the failed round
C36_Witness ==
    /\ workers[1].pc = "write"
    /\ workers[1].retry
    /\ workers[1].failed
    /\ workers[1].lastSeq = 2
    /\ workers[1].msg.seq = 3
    /\ workers[1].msg.data = lastSent[CacheKey(workers[1].regID)]
    /\ workers[1].msg.data.nb = "s1"
    /\ workers[1].prevAtPoll = NilBody
    /\ workers[1].query.since = "s0"

\* the same with a prev body: the failed round and the retry polled with
\* the next_batch of the last acknowledged notification
C36_WitnessSince ==
    /\ workers[1].pc = "write"
    /\ workers[1].retry
    /\ workers[1].lastSeq = 3
    /\ workers[1].msg.seq = 4
    /\ workers[1].msg.data = lastSent[CacheKey(workers[1].regID)]
    /\ workers[1].prevAtPoll # NilBody
    /\ workers[1].query.since = workers[1].prevAtPoll.nb
    /\ workers[1].msg.data.nb # workers[1].prevAtPoll.nb

(***************************************************************************)
(* A registration late in its life: the goroutine has had notification     *)
(* number 2^24 - 2 acknowledged and is at its loop head.                   *)
(***************************************************************************)
\* the values of the Observe option are below 2^24 (RFC 7641, section 3.4)
ObserveLimit == 2^24

\* the notifications sent from number 2^24 - 1 on
MaxLateSends == 3

\* longPoll after the notification with number seq and body c was
\* acknowledged
LateWorker(regID, query, c, seq) ==
    [StartedWorker(regID, "Bearer A", query) EXCEPT
        !.seqNum = NextSeqNum(seq),
        !.lastRespBody = CBORBody(c),
        !.status = StatusOK,
        !.lastSeq = seq,
        !.prevResp = CBORBody(c)]

InitLate ==
    /\ \E regID \in SyncRegIDs, query \in OrigQueries, c \in Contents :
          /\ obs = {regID}
          /\ accessTokens = [t \in AccessTokens |->
                               IF t = "Bearer A" THEN 1 ELSE 0]
          /\ lastResponses = [k \in CacheKeys |->
                                IF k = CacheKey(regID) THEN CBORBody(c)
                                ELSE NilBody]
          /\ lastSent = lastResponses
          /\ workers = [w \in WorkerIDs |->
                          IF w = 1
                          THEN LateWorker(regID, query, c, ObserveLimit - 2)
                          ELSE FreeWorker]
    /\ reRegistered = FALSE
    /\ pathCall = NoCall
    /\ cborCall = NoCall
    /\ jcw = NoWriter
    /\ ProxiesIdle

NextLate ==
    \E w \in SyncWorkerIDs :
       longPoll(w, Statuses, Contents, ObserveLimit - 1 + MaxLateSends)

SpecLate == InitLate /\ [][NextLate]_vars

\* C37: the sequence number of a goroutine, and the number sendResponse
\* gives to SetObserve, are at least 0 and below 2^24: the increment of
\* 2^24 - 1 gives 0.
C37_ObserveBelowLimit ==
    \A w \in WorkerIDs :
       /\ workers[w].seqNum \in 0..(ObserveLimit - 1)
       /\ workers[w].msg.seq \in 0..(ObserveLimit - 1)
       /\ workers[w].lastSeq \in 0..(ObserveLimit - 1)

\* the notification after number 2^24 - 1 is written with number 2^24
C37_WitnessAboveLimit ==
    /\ workers[1].pc = "write"
    /\ workers[1].lastSeq = ObserveLimit - 1
    /\ workers[1].msg.seq = ObserveLimit
    /\ workers[1].msg.code = "Content"

(***************************************************************************)
(* The access token of a request on its way from SendRequest over one      *)
(* open session to the origin: the token the client recorded for the       *)
(* session, option 256, and the token the server remembers for the         *)
(* connection.  Several goroutines call SendRequest; each waits for the    *)
(* answer of its request, the requests of different goroutines are handled *)
(* in any order.                                                           *)
(***************************************************************************)
\* "Bearer " + token
Bearer(token) ==
    CASE token = "t1" -> "Bearer t1"
      [] token = "t2" -> "Bearer t2"

\* strings.HasPrefix(authHeader, "Bearer ") and strings.TrimPrefix: the
\* value of option 256, "" when the option is not set
TrimBearer(authHeader) ==
    CASE authHeader = "Bearer t1" -> "t1"
      [] authHeader = "Bearer t2" -> "t2"
      [] OTHER -> ""

InitRelay ==
    /\ NewObservations
    /\ pathCall = NoCall
    /\ cborCall = NoCall
    /\ jcw = NoWriter
    /\ gw = NoGateway
    /\ cli = NoClient
    /\ ack = NoAcks
    /\ ctr = NoTokens
    /\ dc = NoDials
    /\ relay = NoRelay

\* SendRequest up to the comparison with the recorded token: the
\* Authorization header is set when the tokens differ
CompareSent(c, token) ==
    /\ relay.t[c].pc = "idle"
    /\ relay.t[c].calls < MaxSends
    /\ LET differs == relay.sent = "" \/ relay.sent # token IN
       relay' = [relay EXCEPT
                    !.t[c].pc = IF differs THEN "record" ELSE "do",
                    !.t[c].token = token,
                    !.t[c].header = IF differs THEN Bearer(token) ELSE "",
                    !.t[c].calls = @ + 1]
    /\ UNCHANGED <<observeVars, pathCall, cborCall, jcw, gw, cli, ack, ctr, dc>>

\* conn.SetContextValue(ctxValSentAccessToken, token)
RecordSent(c) ==
    /\ relay.t[c].pc = "record"
    /\ relay' = [relay EXCEPT !.t[c].pc = "do", !.sent = relay.t[c].token]
    /\ UNCHANGED <<observeVars, pathCall, cborCall, jcw, gw, cli, ack, ctr, dc>>

\* HTTPRequestToCoAP and conn.Do: the message goes out with option 256 when
\* the header is set; when conn.Do fails with the session still open the
\* message was not received and SendRequest returns nil
Transmit(c, ok) ==
    /\ relay.t[c].pc = "do"
    /\ IF ok
       THEN relay' = [relay EXCEPT
                        !.t[c].pc = "wait",
                        !.net = @ \cup {[from |-> c,
                                         token |-> relay.t[c].token,
                                         option |-> TrimBearer(relay.t[c].header)]}]
       ELSE relay' = [relay EXCEPT !.t[c].pc = "idle"]
    /\ UNCHANGED <<observeVars, pathCall, cborCall, jcw, gw, cli, ack, ctr, dc>>

\* CoAPToHTTPRequest: the Authorization header made from option 256
HeaderOf(m) == IF m.option # "" THEN Bearer(m.option) ELSE ""

\* CoAPHTTPHandler: the header of the request given to the next handler
Authorization(authHeader, known) ==
    IF authHeader = "" THEN known ELSE authHeader

\* CoAPHTTPHandler for a received request: the token of the connection is
\* used when the request has none and is replaced when it has one; the
\* request goes to the next handler and the answer back to SendRequest
ServeRequest(m) ==
    /\ m \in relay.net
    /\ LET authHeader == HeaderOf(m) IN
       relay' = [relay EXCEPT
                    !.net = @ \ {m},
                    !.known = IF authHeader = "" THEN @ ELSE authHeader,
                    !.upstream = Append(@, [token |-> m.token,
                                            auth |-> Authorization(authHeader,
                                                                   relay.known)]),
                    !.t[m.from].pc = "idle"]
    /\ UNCHANGED <<observeVars, pathCall, cborCall, jcw, gw, cli, ack, ctr, dc>>

NextRelay ==
    \/ \E c \in 1..MaxSenders :
          \/ \E token \in ClientTokens : CompareSent(c, token)
          \/ RecordSent(c)
          \/ \E ok \in BOOLEAN : Transmit(c, ok)
    \/ \E m \in relay.net : ServeRequest(m)

SpecRelay == InitRelay /\ [][NextRelay]_vars

\* C38: every request given to the next handler carries the Authorization
\* header "Bearer t", t being the token SendRequest was called with for
\* that request.
C38_UpstreamCarriesOwnToken ==
    \A i \in DOMAIN relay.upstream :
       relay.upstream[i].auth = Bearer(relay.upstream[i].token)

\* a request of SendRequest with t2 reached the origin as "Bearer t1"
C38_WitnessOtherToken ==
    \E i \in DOMAIN relay.upstream :
       /\ relay.upstream[i].token = "t2"
       /\ relay.upstream[i].auth = "Bearer t1"

\* after a failed transmission a request reached the origin with no
\* Authorization header at all, one goroutine calling
C38_WitnessNoToken ==
    /\ relay.t[2].calls = 0
    /\ relay.t[1].calls = 2
    /\ relay.upstream = <<[token |-> "t1", auth |-> ""]>>

\* requests of both tokens reached the origin with their own token, one of
\* them without option 256
C38_WitnessOwnToken ==
    /\ Len(relay.upstream) = 3
    /\ C38_UpstreamCarriesOwnToken
    /\ relay.upstream[1].token = "t1"
    /\ relay.upstream[2].token = "t1"
    /\ relay.upstream[3].token = "t2"

\* C39: a session has a channel for notifications only when its OBSERVE
\* registration succeeded; a /sync call with OBSERVE enabled that ends on a
\* session without a registration has sent the registration and returns
\* nil, so that every such call on the session registers again.
C39_FailedRegistrationTriedAgain ==
    /\ \A s \in 1..MaxSessions :
          cli.sess[s].hasCh => cli.sess[s].registered
    /\ (cli.pc = "idle" /\ IsObserveCall /\ cli.conn # 0
          /\ ~cli.sess[cli.conn].registered) =>
          /\ cli.result = NilResponse
          /\ Len(cli.sends) = 1
          /\ cli.sends[1].observing

\* the registration of an earlier call failed; this /sync call on the same
\* session sent nothing and returned the stub response
C39_WitnessStubUnregistered ==
    /\ cli.pc = "idle"
    /\ IsObserveCall
    /\ cli.calls = 2
    /\ cli.conn = 1
    /\ cli.dialed = 1
    /\ cli.sess[1].open
    /\ cli.sess[1].hasCh
    /\ ~cli.sess[1].registered
    /\ cli.sends = <<>>
    /\ cli.result = StubResponse(cli.req.since)

(***************************************************************************)
(* longPoll against an upstream handler that may leave the sink as it was  *)
(* made: Write not called (w.body is a nil *bytes.Reader), Write called    *)
(* with no bytes, WriteHeader not called (w.statusCode is 0).  A nil       *)
(* pointer dereference and an index out of range are panics of the         *)
(* goroutine, which end the process.                                       *)
(***************************************************************************)
\* a slice that is not nil and has no bytes
EmptyBody == [enc |-> "empty", nb |-> Absent, data |-> 0]

\* what the handler gave to Write
SinkWrites == { "none", "empty", "body" }

\* what the handler gave to WriteHeader, 0 when it did not call it
SinkStatuses == { 0, 200, 404 }

SinkContents == { c \in Contents : c.data = 1 }

\* the goroutine panicked
Panicked(me, cause) == [Returned(me, cause) EXCEPT !.pc = "panic"]

\* the loop head: lastRespBody[0] of a slice without bytes is out of range
LoopHeadSink(w) ==
    LET me == workers[w] IN
    IF me.pc = "head" /\ getRegistration(me.regID) /\ me.lastRespBody = EmptyBody
    THEN /\ workers' = [workers EXCEPT ![w] = Panicked(me, "index")]
         /\ UNCHANGED <<obs, accessTokens, lastResponses, reRegistered,
                        lastSent, callVars>>
    ELSE LoopHead(w)

\* the upstream handler returned: ioutil.ReadAll(w.body) calls Read on the
\* nil reader when nothing was written; a body without bytes is no CBOR, so
\* after a status of 200 it is sent without asking hasUpdatedFn
PollReturnSink(w, status, written, content, maxSeq) ==
    LET me == workers[w] IN
    IF written = "none"
    THEN /\ me.pc = "poll"
         /\ workers' = [workers EXCEPT ![w] = Panicked(me, "read")]
         /\ UNCHANGED <<obs, accessTokens, lastResponses, reRegistered,
                        lastSent, callVars>>
    ELSE IF written = "empty" /\ status = StatusOK
    THEN /\ me.pc = "poll"
         /\ me.seqNum < maxSeq
         /\ workers' = [workers EXCEPT
                ![w].pc = "send",
                ![w].status = status,
                ![w].backupLastRespBody = me.lastRespBody,
                ![w].lastRespBody = EmptyBody,
                ![w].prevResp = EmptyBody,
                ![w].msg = [code |-> "Content", data |-> EmptyBody,
                            seq |-> me.seqNum]]
         /\ UNCHANGED <<obs, accessTokens, lastResponses, reRegistered,
                        lastSent, callVars>>
    ELSE PollReturn(w, status, content, maxSeq)

NextSink ==
    \/ HandleRegistration(SyncRegIDs, SyncTokens, OrigQueries, SyncWorkerIDs, FALSE)
    \/ \E w \in SyncWorkerIDs :
          \/ LoopHeadSink(w)
          \/ \E status \in SinkStatuses, written \in SinkWrites,
                content \in SinkContents :
                PollReturnSink(w, status, written, content, MaxSyncSeq)
          \/ Send(w)
          \/ \E ok \in BOOLEAN : Write(w, ok)
          \/ WriteErr(w)
          \/ Check(w)
          \/ Exit(w)

SpecSink == Init /\ [][NextSink]_vars

\* C40: whatever the upstream handler left in the sink, the goroutine goes
\* on to its next round or returns and removes the registration; it never
\* panics.
C40_NoPanic ==
    \A w \in WorkerIDs : workers[w].pc # "panic"

\* the handler wrote no body: the goroutine panicked in ioutil.ReadAll in
\* its first round
C40_WitnessNoBody ==
    /\ workers[1].pc = "panic"
    /\ workers[1].exitCause = "read"
    /\ workers[1].regID \in obs

\* the handler answered 200 and wrote no bytes: the empty notification was
\* sent as number 2, and the goroutine panicked at the next loop head
C40_WitnessEmptyBody ==
    /\ workers[1].pc = "panic"
    /\ workers[1].exitCause = "index"
    /\ lastSent[CacheKey(workers[1].regID)] = EmptyBody
    /\ workers[1].regID \in obs

\* the handler wrote a body and no status: the goroutine returned after a
\* notification with the code BadGateway
C40_WitnessNoStatus ==
    /\ workers[1].pc = "done"
    /\ workers[1].exitCause = "status"
    /\ obs = {}

====
